---------------------------- MODULE Spec2Model ----------------------------
(***************************************************************************)
(* The score-to-square resolver of premier-squares-webapp: the stateless   *)
(* utility module src/src/utils/coloringLogic.js and the closures of the   *)
(* Squares component (src/unnamed/part_004), as state machines whose       *)
(* initial states draw the inputs and whose actions apply the functions;   *)
(* and the collaborators around it: the poll loop of Squares, the          *)
(* normalizer getNFLGameData, retryWithBackoff with contestAPI.getContest, *)
(* and the submit of NameEntry.                                            *)
(***************************************************************************)
EXTENDS Integers, Sequences, FiniteSets, TLC

VARIABLES
    num,        \* the argument handed to getLastDigit
    gameData,   \* the snapshot the resolver reads (Squares' gameData state)
    candidate,  \* the value handed to validateGameData
    names,          \* Squares' names state: grid index -> name
    eventId,        \* Squares' eventId state
    loading,        \* Squares' loading state
    error,          \* Squares' error state
    contestStatus,  \* Squares' contestStatus state
    intervalRef,    \* Squares' intervalRef.current
    inFlight,       \* the calls of Squares' fetchGameData that are awaiting
    isMounted,      \* whether the Squares component is mounted
    retry,      \* the run of retryWithBackoff
    nameEntry,  \* the NameEntry component and the requests it issued
    op,         \* the function applied last ("none" before any call)
    args,       \* its arguments besides the snapshot
    result      \* what it returned

\* The state of the Squares component besides gameData.
component ==
    <<names, eventId, loading, error, contestStatus, intervalRef, inFlight, isMounted>>

vars == <<num, gameData, candidate, component, retry, nameEntry, op, args, result>>

(***************************************************************************)
(* Bounds of the model.                                                    *)
(***************************************************************************)
MaxNum == 60        \* getLastDigit is applied to -MaxNum..MaxNum and to -0
MaxSlots == 2       \* longest lineScore array getCumulativeScores is tried on
MaxLen == 2         \* most periods a game the grid is resolved on has scores for
MaxPeriod == 5      \* largest currentPeriod (5 is the first overtime)
MaxNames == 50      \* squares of the contest that have a name
MaxInFlight == 1    \* most poll fetches of the Squares component awaiting at once
MaxSubmits == 2     \* most clicks on Submit in NameEntry

(***************************************************************************)
(* JavaScript numbers, as far as the resolver needs them: integers with a  *)
(* signed zero.  -0 is [neg |-> TRUE, mag |-> 0].                          *)
(***************************************************************************)
JsNumber(i) == [neg |-> i < 0, mag |-> IF i < 0 THEN -i ELSE i]

NegZero == [neg |-> TRUE, mag |-> 0]

PosZero == JsNumber(0)

\* The mathematical value of a JavaScript number (both zeros are 0).
JsValue(x) == IF x.neg THEN -x.mag ELSE x.mag

\* Object.is(x, -0): what Jest's toBe tells apart from 0.
IsNegZero(x) == x.neg /\ x.mag = 0

\* x === y on numbers: +0 === -0 is true.
JsStrictEq(x, y) == x.mag = y.mag /\ (x.mag = 0 \/ x.neg = y.neg)

\* x % m for m > 0: the remainder truncates toward zero and takes the sign
\* of the dividend, so a negative multiple of m gives -0.
JsRem(x, m) == [neg |-> x.neg, mag |-> x.mag % m]

\* x + y: only (-0) + (-0) is -0.
JsAdd(x, y) ==
    IF IsNegZero(x) /\ IsNegZero(y) THEN NegZero ELSE JsNumber(JsValue(x) + JsValue(y))

(***************************************************************************)
(* JavaScript values, tagged by type.  An object is its own properties:    *)
(* props maps the names that are present to their values, so that          *)
(* `name in obj` is name \in DOMAIN obj.props.                             *)
(***************************************************************************)
Undefined == [type |-> "undefined"]

Null == [type |-> "null"]

Number(i) == [type |-> "number", n |-> JsNumber(i)]

String(s) == [type |-> "string", s |-> s]

Array(items) == [type |-> "array", props |-> <<>>, items |-> items]

Object(props) == [type |-> "object", props |-> props]

\* arr[i] with the 0-based index of the source: undefined past the end.
ArrayGet(arr, i) == IF (i + 1) \in DOMAIN arr THEN arr[i + 1] ELSE Undefined

\* What parseInt returns for a string that spells no integer.
NaN == [type |-> "nan"]

\* ToBoolean(v): undefined, null, NaN, 0, -0 and "" are falsy.
Truthy(v) ==
    CASE v.type = "undefined" -> FALSE
      [] v.type = "null" -> FALSE
      [] v.type = "nan" -> FALSE
      [] v.type = "number" -> v.n.mag # 0
      [] v.type = "string" -> v.s # ""
      [] OTHER -> TRUE

\* v || 0 on a slot that holds a number, undefined or null.
OrZero(v) == IF Truthy(v) THEN v.n ELSE PosZero

\* The right operand of `in` must be an object; a primitive, null or
\* undefined there raises a TypeError.
IsObject(v) == v.type \in {"object", "array"}

HasProperty(obj, name) == name \in DOMAIN obj.props

\* obj[name] on an object: undefined for a name that is not there.
GetProperty(obj, name) == IF HasProperty(obj, name) THEN obj.props[name] ELSE Undefined

(***************************************************************************)
(* coloringLogic.js                                                        *)
(***************************************************************************)
\* A plausible slip: the remainder returned as it is, -0 included.
getLastDigit_raw(n) == JsRem(n, 10)

\* A plausible slip: the digit taken from the absolute value.
getLastDigit_abs(n) == JsRem(JsNumber(n.mag), 10)

getLastDigit(n) ==
    LET res == JsRem(n, 10)
    IN  IF JsStrictEq(res, NegZero) THEN PosZero ELSE res

RECURSIVE CumulativeLoop(_, _, _, _, _)
CumulativeLoop(gd, period, i, homeTotal, awayTotal) ==
    IF i < period
    THEN LET homeScore == OrZero(ArrayGet(gd.homeTeam.lineScore, i))
             awayScore == OrZero(ArrayGet(gd.awayTeam.lineScore, i))
         IN  CumulativeLoop(gd, period, i + 1,
                            JsAdd(homeTotal, homeScore), JsAdd(awayTotal, awayScore))
    ELSE [home |-> homeTotal, away |-> awayTotal]

\* A plausible slip: the loop runs through index period, one entry too far.
getCumulativeScores_inclusive(gd, period) ==
    CumulativeLoop(gd, period + 1, 0, PosZero, PosZero)

\* A plausible slip: the totals are the points of the period alone.
getCumulativeScores_periodOnly(gd, period) ==
    [home |-> OrZero(ArrayGet(gd.homeTeam.lineScore, period - 1)),
     away |-> OrZero(ArrayGet(gd.awayTeam.lineScore, period - 1))]

getCumulativeScores(gd, period) == CumulativeLoop(gd, period, 0, PosZero, PosZero)

\* winningQuarters.map(q => `Q${q}`).join(',')
RECURSIVE JoinQuarters(_)
JoinQuarters(quarters) ==
    IF Len(quarters) = 0 THEN ""
    ELSE IF Len(quarters) = 1 THEN "Q" \o ToString(quarters[1])
    ELSE "Q" \o ToString(quarters[1]) \o "," \o JoinQuarters(Tail(quarters))

\* quarterText is a string or null.
JsString(s) == [kind |-> "string", s |-> s]

NullText == [kind |-> "null", s |-> ""]

RECURSIVE SquareLoop(_, _, _, _, _)
SquareLoop(gd, homeDigit, awayDigit, period, winningQuarters) ==
    IF period <= gd.currentPeriod
    THEN LET scores == getCumulativeScores(gd, period)
             homeLastDigit == getLastDigit(scores.home)
             awayLastDigit == getLastDigit(scores.away)
         IN  SquareLoop(gd, homeDigit, awayDigit, period + 1,
                 IF /\ JsStrictEq(homeLastDigit, JsNumber(homeDigit))
                    /\ JsStrictEq(awayLastDigit, JsNumber(awayDigit))
                 THEN Append(winningQuarters, period)
                 ELSE winningQuarters)
    ELSE winningQuarters

\* A plausible slip: the ternary on the length is lost, and a square without
\* a match gets the text of an empty join.
SquareInfo_joinedAlways(winningQuarters) ==
    [isColored |-> Len(winningQuarters) > 0,
     quarters |-> winningQuarters,
     quarterText |-> JsString(JoinQuarters(winningQuarters))]

SquareInfo(winningQuarters) ==
    IF Len(winningQuarters) > 0
    THEN [isColored |-> TRUE,
          quarters |-> winningQuarters,
          quarterText |-> JsString(JoinQuarters(winningQuarters))]
    ELSE [isColored |-> FALSE, quarters |-> <<>>, quarterText |-> NullText]

\* A plausible slip: the away digit is not compared.
getSquareInfo_homeOnly(gd, homeDigit, awayDigit) ==
    SquareInfo(SelectSeq([p \in 1..gd.currentPeriod |-> p],
                         LAMBDA p : JsStrictEq(getLastDigit(getCumulativeScores(gd, p).home),
                                               JsNumber(homeDigit))))

\* A plausible slip: the loop starts at period 0, whose totals are 0-0.
getSquareInfo_fromZero(gd, homeDigit, awayDigit) ==
    SquareInfo(SquareLoop(gd, homeDigit, awayDigit, 0, <<>>))

\* A plausible slip: the loop stops short of the current period.
getSquareInfo_exclusive(gd, homeDigit, awayDigit) ==
    SquareInfo(SquareLoop([gd EXCEPT !.currentPeriod = @ - 1], homeDigit, awayDigit, 1, <<>>))

\* A plausible slip: the loop runs over the whole line score instead of the
\* periods up to currentPeriod.
getSquareInfo_wholeLine(gd, homeDigit, awayDigit) ==
    SquareInfo(SquareLoop([gd EXCEPT !.currentPeriod = Len(gd.homeTeam.lineScore)],
                          homeDigit, awayDigit, 1, <<>>))

getSquareInfo(gd, homeDigit, awayDigit) ==
    SquareInfo(SquareLoop(gd, homeDigit, awayDigit, 1, <<>>))

\* The grid is 10 x 10: digits 0..9 on each axis.
GridSize == 10

Digits == 0..(GridSize - 1)

\* {homeDigit, awayDigit, ...squareInfo}
WinningSquare(homeDigit, awayDigit, squareInfo) ==
    [homeDigit |-> homeDigit,
     awayDigit |-> awayDigit,
     isColored |-> squareInfo.isColored,
     quarters |-> squareInfo.quarters,
     quarterText |-> squareInfo.quarterText]

\* The inner loop: the squares one home digit pushes, away digit by away
\* digit, in the order pushed.
RECURSIVE AwayLoop(_, _, _, _, _)
AwayLoop(gd, last, homeDigit, awayDigit, pushed) ==
    IF awayDigit < last
    THEN LET squareInfo == getSquareInfo(gd, homeDigit, awayDigit)
         IN  AwayLoop(gd, last, homeDigit, awayDigit + 1,
                 IF squareInfo.isColored
                 THEN Append(pushed, WinningSquare(homeDigit, awayDigit, squareInfo))
                 ELSE pushed)
    ELSE pushed

\* The outer loop: winningSquares is what the home digits push, one after
\* the other.
RECURSIVE HomeLoop(_, _, _)
HomeLoop(gd, last, homeDigit) ==
    IF homeDigit < last
    THEN AwayLoop(gd, last, homeDigit, 0, <<>>) \o HomeLoop(gd, last, homeDigit + 1)
    ELSE <<>>

\* A plausible slip: the isColored test is lost, and every square is pushed.
getAllWinningSquares_unfiltered(gd) ==
    [i \in 1..(GridSize * GridSize) |->
        LET homeDigit == (i - 1) \div GridSize
            awayDigit == (i - 1) % GridSize
        IN  WinningSquare(homeDigit, awayDigit, getSquareInfo(gd, homeDigit, awayDigit))]

\* A plausible slip: a break after the push, so that a home digit gives its
\* first colored square only.
getAllWinningSquares_firstPerHome(gd) ==
    LET first(homeDigit) ==
            LET colored == {a \in Digits : getSquareInfo(gd, homeDigit, a).isColored}
                awayDigit == CHOOSE a \in colored : \A b \in colored : a <= b
            IN  IF colored = {} THEN <<>>
                ELSE <<WinningSquare(homeDigit, awayDigit,
                                     getSquareInfo(gd, homeDigit, awayDigit))>>
    IN  first(0) \o first(1) \o first(2) \o first(3) \o first(4)
            \o first(5) \o first(6) \o first(7) \o first(8) \o first(9)

getAllWinningSquares(gd) == HomeLoop(gd, GridSize, 0)

\* What a call of validateGameData comes to: a returned boolean, or a
\* TypeError raised by `in`.
Returned(b) == [threw |-> FALSE, value |-> b]

ThrownTypeError == [threw |-> TRUE, value |-> FALSE]

requiredFields == <<"homeTeam", "awayTeam", "currentPeriod">>

requiredTeamFields == <<"name", "score", "lineScore">>

\* for (const field of fields) if (!(field in obj)) return false;
\* "throw" when obj is no object, "false" at the first name that is
\* missing, "next" when the loop runs to its end.
RECURSIVE FieldLoop(_, _, _)
FieldLoop(obj, fields, i) ==
    IF i > Len(fields) THEN "next"
    ELSE IF ~IsObject(obj) THEN "throw"
    ELSE IF ~HasProperty(obj, fields[i]) THEN "false"
    ELSE FieldLoop(obj, fields, i + 1)

\* The type checks that follow the loops.
TypeChecks(gd) ==
    LET currentPeriod == GetProperty(gd, "currentPeriod")
        homeTeam == GetProperty(gd, "homeTeam")
        awayTeam == GetProperty(gd, "awayTeam")
    IN  IF currentPeriod.type # "number" \/ JsValue(currentPeriod.n) < 0
        THEN FALSE
        ELSE IF \/ GetProperty(homeTeam, "score").type # "number"
                \/ GetProperty(awayTeam, "score").type # "number"
        THEN FALSE
        ELSE IF \/ GetProperty(homeTeam, "lineScore").type # "array"
                \/ GetProperty(awayTeam, "lineScore").type # "array"
        THEN FALSE
        ELSE TRUE

validateGameData(gd) ==
    IF ~Truthy(gd) THEN Returned(FALSE)
    ELSE LET top == FieldLoop(gd, requiredFields, 1)
             home == FieldLoop(GetProperty(gd, "homeTeam"), requiredTeamFields, 1)
             away == FieldLoop(GetProperty(gd, "awayTeam"), requiredTeamFields, 1)
         IN  CASE top = "throw" -> ThrownTypeError
               [] top = "false" -> Returned(FALSE)
               [] home = "throw" -> ThrownTypeError
               [] home = "false" -> Returned(FALSE)
               [] away = "throw" -> ThrownTypeError
               [] away = "false" -> Returned(FALSE)
               [] OTHER -> Returned(TypeChecks(gd))

(***************************************************************************)
(* The Squares component (src/unnamed/part_004): the same resolver as      *)
(* closures over the component's gameData, with the final/ongoing split.   *)
(***************************************************************************)
\* A plausible slip: the digit taken from the absolute value.
Squares_getLastDigit_abs(n) == JsRem(JsNumber(n.mag), 10)

Squares_getLastDigit(n) == JsRem(n, 10)

Squares_getCumulativeScores(gd, period) ==
    CumulativeLoop(gd, period, 0, PosZero, PosZero)

\* A plausible slip: the halftime clause left out.
isQuarterFinal_noHalftime(gd, quarter) ==
    \/ /\ gd.currentPeriod > quarter
       /\ ~(quarter = 4 /\ gd.currentPeriod > 4 /\ gd.gameStatus # "STATUS_FINAL")
    \/ gd.gameStatus = "STATUS_FINAL"

\* A plausible slip: the clause on the final status left out.
isQuarterFinal_noFinal(gd, quarter) ==
    \/ /\ gd.currentPeriod > quarter
       /\ ~(quarter = 4 /\ gd.currentPeriod > 4 /\ gd.gameStatus # "STATUS_FINAL")
    \/ (quarter = 2 /\ gd.gameStatus = "STATUS_HALFTIME")

\* A plausible slip: the overtime exception applied to every period.
isQuarterFinal_anyOvertime(gd, quarter) ==
    \/ /\ gd.currentPeriod > quarter
       /\ ~(gd.currentPeriod > 4 /\ gd.gameStatus # "STATUS_FINAL")
    \/ gd.gameStatus = "STATUS_FINAL"
    \/ (quarter = 2 /\ gd.gameStatus = "STATUS_HALFTIME")

\* A plausible slip: the overtime exception left out.
isQuarterFinal_noOvertime(gd, quarter) ==
    \/ gd.currentPeriod > quarter
    \/ gd.gameStatus = "STATUS_FINAL"
    \/ (quarter = 2 /\ gd.gameStatus = "STATUS_HALFTIME")

isQuarterFinal(gd, quarter) ==
    \/ /\ gd.currentPeriod > quarter
       /\ ~(quarter = 4 /\ gd.currentPeriod > 4 /\ gd.gameStatus # "STATUS_FINAL")
    \/ gd.gameStatus = "STATUS_FINAL"
    \/ (quarter = 2 /\ gd.gameStatus = "STATUS_HALFTIME")

\* A plausible slip: the else is lost, and a final period is pushed to
\* ongoingQuarters as well.
Categorize_noElse(gd, period, lists) ==
    [winning |-> Append(lists.winning, period),
     final |-> IF isQuarterFinal(gd, period)
               THEN Append(lists.final, period) ELSE lists.final,
     ongoing |-> Append(lists.ongoing, period)]

\* A matching period is pushed to winningQuarters and to one of
\* finalQuarters and ongoingQuarters.
Categorize(gd, period, lists) ==
    IF isQuarterFinal(gd, period)
    THEN [lists EXCEPT !.winning = Append(@, period), !.final = Append(@, period)]
    ELSE [lists EXCEPT !.winning = Append(@, period), !.ongoing = Append(@, period)]

RECURSIVE Squares_SquareLoop(_, _, _, _, _)
Squares_SquareLoop(gd, homeDigit, awayDigit, period, lists) ==
    IF period <= gd.currentPeriod
    THEN LET scores == Squares_getCumulativeScores(gd, period)
             homeLastDigit == Squares_getLastDigit(scores.home)
             awayLastDigit == Squares_getLastDigit(scores.away)
         IN  Squares_SquareLoop(gd, homeDigit, awayDigit, period + 1,
                 IF /\ JsStrictEq(homeLastDigit, JsNumber(homeDigit))
                    /\ JsStrictEq(awayLastDigit, JsNumber(awayDigit))
                 THEN Categorize(gd, period, lists)
                 ELSE lists)
    ELSE lists

\* A plausible slip: hasOngoingQuarter taken from the period being played
\* instead of the periods the square matched.
Squares_getSquareInfo_currentPeriod(gd, homeDigit, awayDigit) ==
    LET lists == Squares_SquareLoop(gd, homeDigit, awayDigit, 1,
                     [winning |-> <<>>, final |-> <<>>, ongoing |-> <<>>])
    IN  IF Len(lists.winning) > 0
        THEN [isColored |-> TRUE,
              quarters |-> lists.winning,
              finalQuarters |-> lists.final,
              ongoingQuarters |-> lists.ongoing,
              quarterText |-> JsString(JoinQuarters(lists.winning)),
              hasOngoingQuarter |-> ~isQuarterFinal(gd, gd.currentPeriod)]
        ELSE [isColored |-> FALSE,
              quarters |-> <<>>,
              finalQuarters |-> <<>>,
              ongoingQuarters |-> <<>>,
              quarterText |-> NullText,
              hasOngoingQuarter |-> FALSE]

Squares_getSquareInfo(gd, homeDigit, awayDigit) ==
    LET lists == Squares_SquareLoop(gd, homeDigit, awayDigit, 1,
                     [winning |-> <<>>, final |-> <<>>, ongoing |-> <<>>])
    IN  IF Len(lists.winning) > 0
        THEN [isColored |-> TRUE,
              quarters |-> lists.winning,
              finalQuarters |-> lists.final,
              ongoingQuarters |-> lists.ongoing,
              quarterText |-> JsString(JoinQuarters(lists.winning)),
              hasOngoingQuarter |-> Len(lists.ongoing) > 0]
        ELSE [isColored |-> FALSE,
              quarters |-> <<>>,
              finalQuarters |-> <<>>,
              ongoingQuarters |-> <<>>,
              quarterText |-> NullText,
              hasOngoingQuarter |-> FALSE]

\* One grid item: the row is the away digit, the column the home digit.
GridItem(gd, rowIndex, colIndex) ==
    [gridIndex |-> rowIndex * 10 + colIndex + 1,
     homeDigit |-> colIndex,
     awayDigit |-> rowIndex,
     squareInfo |-> Squares_getSquareInfo(gd, colIndex, rowIndex)]

\* The grid items of one render: ten rows of ten.
GridItems(gd) ==
    {GridItem(gd, rowIndex, colIndex) : rowIndex \in 0..9, colIndex \in 0..9}

\* names[gridIndex] || `Name ${gridIndex}`
NameAt(nameTable, gridIndex) ==
    IF gridIndex \in DOMAIN nameTable /\ Truthy(nameTable[gridIndex])
    THEN nameTable[gridIndex]
    ELSE String("Name " \o ToString(gridIndex))

\* A plausible slip: the two axes exchanged.
getQuarterWinnerName_transposed(gd, nameTable, quarter) ==
    IF gd = Null \/ quarter > gd.currentPeriod
    THEN Null
    ELSE LET scores == Squares_getCumulativeScores(gd, quarter)
             rowIndex == JsValue(Squares_getLastDigit(scores.home))
             colIndex == JsValue(Squares_getLastDigit(scores.away))
         IN  NameAt(nameTable, rowIndex * 10 + colIndex + 1)

getQuarterWinnerName(gd, nameTable, quarter) ==
    IF gd = Null \/ quarter > gd.currentPeriod
    THEN Null
    ELSE LET scores == Squares_getCumulativeScores(gd, quarter)
             homeLastDigit == Squares_getLastDigit(scores.home)
             awayLastDigit == Squares_getLastDigit(scores.away)
             rowIndex == JsValue(awayLastDigit)
             colIndex == JsValue(homeLastDigit)
             gridIndex == rowIndex * 10 + colIndex + 1
         IN  NameAt(nameTable, gridIndex)

\* What Squares returns: one of the four messages, or the grid with its
\* hundred items and the winner names of the quarter scores line.
View(kind, items, winnerNames) ==
    [view |-> kind, items |-> items, winnerNames |-> winnerNames]

Message(kind) == View(kind, {}, <<>>)

Squares(gd) ==
    IF error # Null THEN Message("error")
    ELSE IF contestStatus = String("new") THEN Message("notStarted")
    ELSE IF loading \/ DOMAIN names = {} \/ ~Truthy(eventId) THEN Message("loading")
    ELSE IF gd = Null THEN Message("noData")
    ELSE View("grid", GridItems(gd),
              [quarter \in 1..4 |-> getQuarterWinnerName(gd, names, quarter)])

(***************************************************************************)
(* Inputs.                                                                 *)
(***************************************************************************)
NumInputs == {JsNumber(i) : i \in (-MaxNum)..MaxNum} \cup {NegZero}

\* The slots the cumulative sum is tried on: a scoreless period, a
\* touchdown, a negative multiple of ten from outside the domain, and the
\* two empty slots.
Slots == {Number(0), Number(7), Number(-10), Undefined, Null}

\* What one period adds to <<home, away>> in the games the grid is resolved
\* on: nothing, a touchdown on either side, and a home score from outside
\* the domain.
PeriodScores == {<<0, 0>>, <<7, 0>>, <<0, 7>>, <<-10, 7>>}

SeqsUpTo(S, n) == UNION {[1..k -> S] : k \in 0..n}

NoStatus == "undefined"

Snapshot(homeLine, awayLine, currentPeriod, gameStatus) ==
    [homeTeam |-> [lineScore |-> homeLine],
     awayTeam |-> [lineScore |-> awayLine],
     currentPeriod |-> currentPeriod,
     gameStatus |-> gameStatus]

NoGame == Snapshot(<<>>, <<>>, 0, NoStatus)

\* The games of at most MaxLen periods, and the snapshot of one.
Games == SeqsUpTo(PeriodScores, MaxLen)

GameSnapshot(game, currentPeriod, gameStatus) ==
    Snapshot([i \in DOMAIN game |-> Number(game[i][1])],
             [i \in DOMAIN game |-> Number(game[i][2])],
             currentPeriod, gameStatus)

\* The contest's names array as the names state: index + 1 -> name.
namesObject(contestNames) == [i \in DOMAIN contestNames |-> contestNames[i]]

\* A contest whose first MaxNames squares are taken; the others show their
\* placeholder.
PlayerNames == [i \in 1..MaxNames |-> String("Player " \o ToString(i))]

Interval == [type |-> "interval"]

\* No call of fetchGameData is awaiting getNFLGameData.
NoFetch == [initial |-> FALSE, polls |-> 0]

\* Before retryWithBackoff and handleSubmit are called.
NoRetry == [pc |-> "idle"]

\* The grid has 100 squares.
TOTAL_SQUARES == 100

\* NameEntry as useState leaves it: a hundred empty names.  A name is the
\* sequence of its characters; log is what handleSubmit has requested and
\* called so far, and how each request ended.
NoSubmit ==
    [pc |-> "idle",
     names |-> [i \in 1..TOTAL_SQUARES |-> <<>>],
     isSubmitting |-> FALSE,
     error |-> Null,
     submits |-> 0,
     log |-> <<>>]

\* The component as useState and useRef leave it on mount.
Mounted ==
    /\ names = <<>>
    /\ eventId = Null
    /\ loading = TRUE
    /\ error = Null
    /\ contestStatus = Null
    /\ intervalRef = Null
    /\ inFlight = NoFetch
    /\ isMounted = TRUE
    /\ retry = NoRetry
    /\ nameEntry = NoSubmit

\* The component once the contest and the first snapshot are there.
Loaded ==
    /\ names = namesObject(PlayerNames)
    /\ eventId = String("401547417")
    /\ loading = FALSE
    /\ error = Null
    /\ contestStatus = String("active")
    /\ intervalRef = Interval
    /\ inFlight = NoFetch
    /\ isMounted = TRUE
    /\ retry = NoRetry
    /\ nameEntry = NoSubmit

NoCall == /\ op = "none"
          /\ args = <<>>
          /\ result = <<>>

\* The caller takes the result; the next call starts from the same inputs.
Return ==
    /\ op # "none"
    /\ op' = "none"
    /\ args' = <<>>
    /\ result' = <<>>
    /\ UNCHANGED <<num, gameData, candidate, component, retry, nameEntry>>

(***************************************************************************)
(* getLastDigit applied to a number.                                       *)
(***************************************************************************)
InitDigit ==
    /\ num \in NumInputs
    /\ gameData = NoGame
    /\ candidate = Undefined
    /\ Mounted
    /\ NoCall

CallGetLastDigit ==
    /\ op = "none"
    /\ op' = "getLastDigit"
    /\ args' = <<num>>
    /\ result' = getLastDigit(num)
    /\ UNCHANGED <<num, gameData, candidate, component, retry, nameEntry>>

NextDigit == CallGetLastDigit \/ Return

SpecDigit == InitDigit /\ [][NextDigit]_vars

(***************************************************************************)
(* getCumulativeScores applied to a snapshot and a period.                 *)
(***************************************************************************)
InitCumulative ==
    /\ num = PosZero
    /\ \E h \in SeqsUpTo(Slots, MaxSlots), a \in SeqsUpTo(Slots, MaxSlots) :
          gameData = Snapshot(h, a, 0, NoStatus)
    /\ candidate = Undefined
    /\ Mounted
    /\ NoCall

\* A plausible slip: the default of an empty slot is written back
\* (lineScore[i] = lineScore[i] || 0), which fills the snapshot's lines up to
\* the period asked for.
CallGetCumulativeScores_filling ==
    \E period \in 0..(MaxPeriod + 1) :
        LET filled(line) ==
                [i \in 1..(IF period > Len(line) THEN period ELSE Len(line)) |->
                    [type |-> "number", n |-> OrZero(ArrayGet(line, i - 1))]]
        IN  /\ op = "none"
            /\ op' = "getCumulativeScores"
            /\ args' = <<period>>
            /\ result' = getCumulativeScores(gameData, period)
            /\ gameData' = [gameData EXCEPT !.homeTeam.lineScore = filled(@),
                                            !.awayTeam.lineScore = filled(@)]
            /\ UNCHANGED <<num, candidate, component, retry, nameEntry>>

CallGetCumulativeScores ==
    \E period \in 0..(MaxPeriod + 1) :
        /\ op = "none"
        /\ op' = "getCumulativeScores"
        /\ args' = <<period>>
        /\ result' = getCumulativeScores(gameData, period)
        /\ UNCHANGED <<num, gameData, candidate, component, retry, nameEntry>>

NextCumulative == CallGetCumulativeScores \/ Return

SpecCumulative == InitCumulative /\ [][NextCumulative]_vars

(***************************************************************************)
(* getSquareInfo and getAllWinningSquares applied to a snapshot.           *)
(***************************************************************************)
InitSquare ==
    /\ num = PosZero
    /\ \E game \in Games, p \in 0..MaxPeriod :
          gameData = GameSnapshot(game, p, NoStatus)
    /\ candidate = Undefined
    /\ Mounted
    /\ NoCall

CallGetSquareInfo ==
    \E homeDigit \in Digits, awayDigit \in Digits :
        /\ op = "none"
        /\ op' = "getSquareInfo"
        /\ args' = <<homeDigit, awayDigit>>
        /\ result' = getSquareInfo(gameData, homeDigit, awayDigit)
        /\ UNCHANGED <<num, gameData, candidate, component, retry, nameEntry>>

\* A plausible slip: the squares are collected in a container without an
\* order of its own, and come out in either direction.
CallGetAllWinningSquares_anyOrder ==
    LET swept == getAllWinningSquares(gameData)
    IN  /\ op = "none"
        /\ op' = "getAllWinningSquares"
        /\ args' = <<>>
        /\ result' \in {swept, [i \in DOMAIN swept |-> swept[Len(swept) + 1 - i]]}
        /\ UNCHANGED <<num, gameData, candidate, component, retry, nameEntry>>

CallGetAllWinningSquares ==
    /\ op = "none"
    /\ op' = "getAllWinningSquares"
    /\ args' = <<>>
    /\ result' = getAllWinningSquares(gameData)
    /\ UNCHANGED <<num, gameData, candidate, component, retry, nameEntry>>

NextSquare == CallGetSquareInfo \/ CallGetAllWinningSquares \/ Return

SpecSquare == InitSquare /\ [][NextSquare]_vars

(***************************************************************************)
(* getSquareInfo and getAllWinningSquares applied to the snapshots of a    *)
(* game at the end of regulation and in overtime.                          *)
(***************************************************************************)
\* A game has four periods before overtime.
RegulationPeriods == 4

\* One side scores a touchdown in each period of regulation; the overtime
\* entry, if the line score has one, is any of the period scores.
RegulationScores == {<<7, 0>>, <<0, 7>>}

OvertimeGames ==
    {regulation \o overtime :
        regulation \in [1..RegulationPeriods -> RegulationScores],
        overtime \in SeqsUpTo(PeriodScores, 1)}

InitOvertime ==
    /\ num = PosZero
    /\ \E game \in OvertimeGames, p \in RegulationPeriods..(RegulationPeriods + 1) :
          gameData = GameSnapshot(game, p, NoStatus)
    /\ candidate = Undefined
    /\ Mounted
    /\ NoCall

SpecOvertime == InitOvertime /\ [][NextSquare]_vars

(***************************************************************************)
(* getSquareInfo and getAllWinningSquares applied to snapshots with        *)
(* negative line scores, getSquareInfo at coordinates off the grid too.    *)
(***************************************************************************)
\* Period scores from outside the domain, with the negative scores of the
\* App.test.js case among them.
NegativeScores == {<<-10, -5>>, <<-3, 7>>, <<7, 0>>}

NegativeGames == SeqsUpTo(NegativeScores, MaxLen)

\* The remainders a signed total can have.
SignedDigits == (1 - GridSize)..(GridSize - 1)

InitNegative ==
    /\ num = PosZero
    /\ \E game \in NegativeGames, p \in 0..MaxPeriod :
          gameData = GameSnapshot(game, p, NoStatus)
    /\ candidate = Undefined
    /\ Mounted
    /\ NoCall

CallGetSquareInfoOffGrid ==
    \E homeDigit \in SignedDigits, awayDigit \in SignedDigits :
        /\ op = "none"
        /\ op' = "getSquareInfo"
        /\ args' = <<homeDigit, awayDigit>>
        /\ result' = getSquareInfo(gameData, homeDigit, awayDigit)
        /\ UNCHANGED <<num, gameData, candidate, component, retry, nameEntry>>

NextNegative == CallGetSquareInfoOffGrid \/ CallGetAllWinningSquares \/ Return

SpecNegative == InitNegative /\ [][NextNegative]_vars

(***************************************************************************)
(* The Squares component rendering a fetched snapshot.                     *)
(***************************************************************************)
GameStatuses == {"STATUS_IN_PROGRESS", "STATUS_HALFTIME", "STATUS_FINAL"}

InitGrid ==
    /\ num = PosZero
    /\ \E game \in Games, p \in 0..MaxPeriod, status \in GameStatuses :
          gameData = GameSnapshot(game, p, status)
    /\ candidate = Undefined
    /\ Loaded
    /\ NoCall

CallIsQuarterFinal ==
    \E quarter \in 1..MaxPeriod :
        /\ op = "none"
        /\ op' = "isQuarterFinal"
        /\ args' = <<quarter>>
        /\ result' = isQuarterFinal(gameData, quarter)
        /\ UNCHANGED <<num, gameData, candidate, component, retry, nameEntry>>

Render ==
    /\ op = "none"
    /\ isMounted
    /\ op' = "render"
    /\ args' = <<>>
    /\ result' = Squares(gameData)
    /\ UNCHANGED <<num, gameData, candidate, component, retry, nameEntry>>

NextGrid == CallIsQuarterFinal \/ Render \/ Return

SpecGrid == InitGrid /\ [][NextGrid]_vars

(***************************************************************************)
(* validateGameData applied to a candidate.                                *)
(***************************************************************************)
\* A property that is not there (no JavaScript value: it only builds props).
Absent == [type |-> "absent"]

\* The object whose properties are the pairs <<name, value>> whose value is
\* not Absent.
ObjectOf(pairs) ==
    LET present == {p \in pairs : p[2] # Absent}
    IN  Object([name \in {p[1] : p \in present} |->
                    (CHOOSE p \in present : p[1] = name)[2]])

TeamObjects ==
    {ObjectOf({<<"name", name>>, <<"score", score>>, <<"lineScore", lineScore>>}) :
        name \in {Absent, String("Home Team")},
        score \in {Absent, Number(21), String("21")},
        lineScore \in {Absent, Array(<<Number(7), Number(7), Number(7)>>),
                       String("not an array")}}

Teams == TeamObjects \cup {Absent, Null, Undefined, Number(21), String("Home Team")}

Periods == {Absent, Number(3), Number(0), Number(-1), String("3")}

Candidates ==
    {ObjectOf({<<"homeTeam", homeTeam>>, <<"awayTeam", awayTeam>>,
               <<"currentPeriod", currentPeriod>>}) :
        homeTeam \in Teams, awayTeam \in Teams, currentPeriod \in Periods}
    \cup {Null, Undefined, Number(0), Number(5), String(""), String("game"),
          Array(<<>>)}

InitValidate ==
    /\ num = PosZero
    /\ gameData = NoGame
    /\ candidate \in Candidates
    /\ Mounted
    /\ NoCall

CallValidateGameData ==
    /\ op = "none"
    /\ op' = "validateGameData"
    /\ args' = <<>>
    /\ result' = validateGameData(candidate)
    /\ UNCHANGED <<num, gameData, candidate, component, retry, nameEntry>>

NextValidate == CallValidateGameData \/ Return

SpecValidate == InitValidate /\ [][NextValidate]_vars

(***************************************************************************)
(* The five functions of coloringLogic.js called in any order on one       *)
(* snapshot.  A call runs to its end before the next one starts: the       *)
(* functions are synchronous.                                              *)
(***************************************************************************)
\* A snapshot as createMockGameData builds it, as a JavaScript value.
SnapshotValue(gd) ==
    LET team(line) == Object([name |-> String("Home Team"),
                              score |-> Number(21),
                              lineScore |-> Array(line)])
    IN  Object([homeTeam |-> team(gd.homeTeam.lineScore),
                awayTeam |-> team(gd.awayTeam.lineScore),
                currentPeriod |-> Number(gd.currentPeriod)])

InitResolver ==
    /\ num = PosZero
    /\ \E game \in Games, p \in 0..MaxPeriod :
          gameData = GameSnapshot(game, p, NoStatus)
    /\ candidate = SnapshotValue(gameData)
    /\ Mounted
    /\ NoCall

NextResolver ==
    \/ CallGetLastDigit
    \/ CallGetCumulativeScores
    \/ CallGetSquareInfo
    \/ CallGetAllWinningSquares
    \/ CallValidateGameData
    \/ Return

SpecResolver == InitResolver /\ [][NextResolver]_vars

(***************************************************************************)
(* The Squares component from mount: the contest is fetched, then the game *)
(* is fetched once and again on every tick of the interval, and the        *)
(* component renders what its state holds.                                 *)
(***************************************************************************)
\* The points a period can add in the games above: what the line scores of
\* the API spell.
Points == {p[i] : p \in PeriodScores, i \in 1..2}

\* parseInt on a display value: the integer the string spells, NaN for a
\* string that spells none.
parseInt(s) ==
    IF \E i \in Points : ToString(i) = s
    THEN Number(CHOOSE i \in Points : ToString(i) = s)
    ELSE NaN

\* quarter => ({value: quarter.displayValue || '0'})
LineScoreEntry(displayValue) ==
    [value |-> IF displayValue = "" THEN "0" ELSE displayValue]

\* A plausible slip: the period taken from the source for a completed game
\* too.
StatusPeriod_raw(gameStatus, period) == JsValue(OrZero(period))

\* The period getNFLGameData reports: 4 for a completed game, else
\* competition.status.period || 0.
StatusPeriod(gameStatus, period) ==
    IF gameStatus = "STATUS_FINAL" THEN 4 ELSE JsValue(OrZero(period))

\* competition.status.type?.name || 'unknown'; a name that is not there is
\* written "".
StatusName(name) == IF name = "" THEN "unknown" ELSE name

\* (team.linescores || []).map(quarter => ({value: ...}))
LineScores(linescores) ==
    [i \in DOMAIN linescores |-> LineScoreEntry(linescores[i])]

\* The block getNFLGameData runs on a competition, of header or gameHeader,
\* that has both competitors: the line scores are replaced, and the status
\* and period too if the competition has a status.
FromCompetition(competition, before) ==
    LET gameStatus == StatusName(competition.status.name)
    IN  [home |-> LineScores(competition.home),
         away |-> LineScores(competition.away),
         gameStatus |-> IF competition.status = Undefined
                        THEN before.gameStatus ELSE gameStatus,
         period |-> IF competition.status = Undefined
                    THEN before.period
                    ELSE StatusPeriod(gameStatus, competition.status.period)]

\* The line scores extracted from the plays or drives, used when the
\* competitions gave none.
FromPlays(plays, before) ==
    IF Len(before.home) = 0 /\ Len(plays.home) > 0
    THEN [before EXCEPT !.home = [i \in DOMAIN plays.home |-> [value |-> plays.home[i]]],
                        !.away = [i \in DOMAIN plays.away |-> [value |-> plays.away[i]]]]
    ELSE before

\* What getNFLGameData makes of a summary that has a boxscore: data.header
\* and data.gameHeader are the first competition of each, or Undefined.
getNFLGameData(data) ==
    LET declared == [home |-> <<>>, away |-> <<>>, gameStatus |-> "unknown", period |-> 0]
        header == IF data.header # Undefined
                  THEN FromCompetition(data.header, declared) ELSE declared
        gameHeader == IF Len(header.home) = 0 /\ data.gameHeader # Undefined
                      THEN FromCompetition(data.gameHeader, header) ELSE header
        extracted == FromPlays(data.plays, gameHeader)
    IN  [homeTeam |-> [lineScore |-> extracted.home],
         awayTeam |-> [lineScore |-> extracted.away],
         gameStatus |-> extracted.gameStatus,
         period |-> extracted.period]

\* scoreObj => parseInt(scoreObj.value) || 0
ParsedScore(scoreObj) == [type |-> "number", n |-> OrZero(parseInt(scoreObj.value))]

transformedData(data) ==
    Snapshot([i \in DOMAIN data.homeTeam.lineScore |->
                 ParsedScore(data.homeTeam.lineScore[i])],
             [i \in DOMAIN data.awayTeam.lineScore |->
                 ParsedScore(data.awayTeam.lineScore[i])],
             data.period, data.gameStatus)

\* isGameCompleted telling no game completed.
isGameCompleted_never(gameStatus) == FALSE

isGameCompleted(gameStatus) == gameStatus = "STATUS_FINAL"

\* status.period as the API can send it: missing, a count of periods, or a
\* number that is no count.
RawPeriods == {Undefined, Number(-1)} \cup {Number(p) : p \in 0..MaxPeriod}

Competitions ==
    {[home |-> [i \in DOMAIN game |-> ToString(game[i][1])],
      away |-> [i \in DOMAIN game |-> ToString(game[i][2])],
      status |-> [name |-> name, period |-> period]] :
        game \in Games, name \in GameStatuses, period \in RawPeriods}

\* A summary whose header competition has the line scores: it has no
\* gameHeader, and its plays are not looked at.
NoPlays == [home |-> <<>>, away |-> <<>>]

HeaderOnly(competition) ==
    [header |-> competition, gameHeader |-> Undefined, plays |-> NoPlays]

\* What awaiting getNFLGameData gives: the game, or null when the request
\* failed and nothing is cached.
ApiResults ==
    {getNFLGameData(HeaderOnly(competition)) : competition \in Competitions} \cup {Null}

\* The contests the store can return.
Contests ==
    [names : {<<>>, PlayerNames},
     eventId : {Undefined, String("401547417")},
     status : {String("new"), String("active")}]

InitSquares ==
    /\ num = PosZero
    /\ gameData = Null
    /\ candidate = Undefined
    /\ Mounted
    /\ NoCall

\* The effect on documentId: fetchContestData, to its end.
FetchContestData ==
    /\ op = "none"
    /\ isMounted
    /\ eventId = Null /\ error = Null /\ contestStatus = Null
    /\ \/ \E data \in Contests :
            /\ contestStatus' = data.status
            /\ IF Truthy(data.eventId)
               THEN /\ eventId' = data.eventId
                    /\ names' = namesObject(data.names)
                    /\ UNCHANGED <<error, loading>>
               ELSE /\ error' = String("No event ID found in contest data")
                    /\ loading' = FALSE
                    /\ UNCHANGED <<eventId, names>>
       \/ /\ error' = String("Failed to fetch contest data")
          /\ loading' = FALSE
          /\ UNCHANGED <<eventId, names, contestStatus>>
    /\ UNCHANGED <<num, gameData, candidate, intervalRef, inFlight, isMounted,
                   retry, nameEntry, op, args, result>>

\* The effect on eventId: fetchGameData(true) runs up to its await and the
\* interval is set.
StartFetching ==
    /\ op = "none"
    /\ isMounted
    /\ Truthy(eventId) /\ loading /\ ~inFlight.initial /\ intervalRef = Null
    /\ loading' = TRUE
    /\ inFlight' = [inFlight EXCEPT !.initial = TRUE]
    /\ intervalRef' = Interval
    /\ UNCHANGED <<num, gameData, candidate, names, eventId, error, contestStatus,
                   isMounted, retry, nameEntry, op, args, result>>

\* A tick of the interval: fetchGameData(false) runs up to its await.
Tick ==
    /\ op = "none"
    /\ intervalRef # Null
    /\ inFlight.polls < MaxInFlight
    /\ inFlight' = [inFlight EXCEPT !.polls = @ + 1]
    /\ UNCHANGED <<num, gameData, candidate, names, eventId, loading, error,
                   contestStatus, intervalRef, isMounted, retry, nameEntry,
                   op, args, result>>

\* The calls of fetchGameData left once the one with this showLoading ended.
Ended(showLoading) ==
    IF showLoading
    THEN [inFlight EXCEPT !.initial = FALSE]
    ELSE [inFlight EXCEPT !.polls = @ - 1]

\* A failure of fetchGameData shown whatever showLoading is.
ReportedError_always(showLoading, message) == String(message)

\* if (showLoading) setError(message): the error state after a failure.
ReportedError(showLoading, message) ==
    IF showLoading THEN String(message) ELSE error

\* fetchGameData(showLoading) from the answer of getNFLGameData on, in the
\* mounted component: the snapshot is set, or the failure is reported.
FetchGameData ==
    \E showLoading \in BOOLEAN :
        /\ op = "none"
        /\ isMounted
        /\ IF showLoading THEN inFlight.initial ELSE inFlight.polls > 0
        /\ inFlight' = Ended(showLoading)
        /\ op' = "fetchGameData"
        /\ args' = <<showLoading>>
        /\ \/ \E data \in ApiResults \ {Null} :
                 /\ gameData' = transformedData(data)
                 /\ intervalRef' = IF isGameCompleted(data.gameStatus)
                                   THEN Null ELSE intervalRef
                 /\ result' = "data"
                 /\ UNCHANGED error
           \/ /\ error' = ReportedError(showLoading, "Failed to fetch game data")
              /\ result' = "null"
              /\ UNCHANGED <<gameData, intervalRef>>
           \/ /\ error' = ReportedError(showLoading, "err.message")
              /\ result' = "throw"
              /\ UNCHANGED <<gameData, intervalRef>>
        /\ loading' = IF showLoading THEN FALSE ELSE loading
        /\ UNCHANGED <<num, candidate, names, eventId, contestStatus, isMounted,
                       retry, nameEntry>>

\* The component unmounts: the cleanup of the effect clears the interval.
\* The fetches that are awaiting end later without changing any state.
Unmount ==
    /\ op = "none"
    /\ isMounted
    /\ isMounted' = FALSE
    /\ intervalRef' = Null
    /\ inFlight' = NoFetch
    /\ UNCHANGED <<num, gameData, candidate, names, eventId, loading, error,
                   contestStatus, retry, nameEntry, op, args, result>>

NextSquares ==
    \/ FetchContestData
    \/ StartFetching
    \/ Tick
    \/ FetchGameData
    \/ Unmount
    \/ Render
    \/ Return

SpecSquares == InitSquares /\ [][NextSquares]_vars

(***************************************************************************)
(* getNFLGameData applied to a summary of the API.                         *)
(***************************************************************************)
\* Four periods of regulation, then no entry or one overtime entry.
SummaryGames ==
    {<<>>} \cup
    {regulation \o overtime :
        regulation \in {[i \in 1..RegulationPeriods |-> <<7, 0>>],
                        [i \in 1..RegulationPeriods |->
                            IF i % 2 = 1 THEN <<7, 0>> ELSE <<0, 7>>]},
        overtime \in SeqsUpTo(PeriodScores, 1)}

\* competition.status: not there, or a status whose type.name may not be
\* there ("") and whose period may not be there.
SummaryStatuses ==
    {Undefined} \cup
    [name : GameStatuses \cup {""},
     period : {Undefined, Number(RegulationPeriods), Number(RegulationPeriods + 1)}]

SummaryCompetition(game, status) ==
    [home |-> [i \in DOMAIN game |-> ToString(game[i][1])],
     away |-> [i \in DOMAIN game |-> ToString(game[i][2])],
     status |-> status]

\* An overtime game: the visitors win it in the fifth period.
OvertimeGame == [i \in 1..(RegulationPeriods + 1) |-> <<0, 7>>]

Summaries ==
    [header : {Undefined} \cup
              {SummaryCompetition(game, status) :
                    game \in SummaryGames, status \in SummaryStatuses},
     gameHeader : {Undefined} \cup
                  {SummaryCompetition(OvertimeGame, status) :
                        status \in {Undefined,
                                    [name |-> "STATUS_FINAL",
                                     period |-> Number(RegulationPeriods + 1)],
                                    [name |-> "STATUS_IN_PROGRESS",
                                     period |-> Number(RegulationPeriods + 1)]}},
     plays : {NoPlays,
              [home |-> [i \in 1..(RegulationPeriods + 1) |-> "7"],
               away |-> [i \in 1..(RegulationPeriods + 1) |-> "0"]]}]

\* Nothing has been called yet.
InitServices ==
    /\ num = PosZero
    /\ gameData = NoGame
    /\ candidate = Undefined
    /\ Mounted
    /\ NoCall

CallGetNFLGameData ==
    \E data \in Summaries :
        /\ op = "none"
        /\ op' = "getNFLGameData"
        /\ args' = <<data>>
        /\ result' = getNFLGameData(data)
        /\ UNCHANGED <<num, gameData, candidate, component, retry, nameEntry>>

NextGameService == CallGetNFLGameData \/ Return

SpecGameService == InitServices /\ [][NextGameService]_vars

(***************************************************************************)
(* retryWithBackoff (src/unnamed/part_001).  A number that can have a      *)
(* fraction is a record [n, d] for n / d: 1.5 is [n |-> 3, d |-> 2].       *)
(***************************************************************************)
MaxCustomRetries == 4   \* largest maxRetries of a configuration of the caller's own

DEFAULT_RETRY_CONFIG ==
    [maxRetries |-> 3,
     baseDelay |-> 1000,
     maxDelay |-> 10000,
     backoffMultiplier |-> [n |-> 2, d |-> 1],
     retryableStatusCodes |-> {408, 429, 500, 502, 503, 504}]

retryStrategies ==
    [immediate |-> [maxRetries |-> 2, baseDelay |-> 100, maxDelay |-> 500],
     standard |-> DEFAULT_RETRY_CONFIG,
     aggressive |-> [maxRetries |-> 5, baseDelay |-> 500, maxDelay |-> 15000,
                     backoffMultiplier |-> [n |-> 3, d |-> 2]],
     conservative |-> [maxRetries |-> 2, baseDelay |-> 2000, maxDelay |-> 5000,
                       backoffMultiplier |-> [n |-> 2, d |-> 1]]]

\* { ...DEFAULT_RETRY_CONFIG, ...config }
RetryConfig(config) ==
    [key \in DOMAIN DEFAULT_RETRY_CONFIG |->
        IF key \in DOMAIN config THEN config[key] ELSE DEFAULT_RETRY_CONFIG[key]]

\* A plausible slip: the delay is not capped.
calculateDelay_uncapped(attempt, config) ==
    [n |-> config.baseDelay * config.backoffMultiplier.n ^ (attempt - 1),
     d |-> config.backoffMultiplier.d ^ (attempt - 1)]

\* Math.min(baseDelay * Math.pow(backoffMultiplier, attempt - 1), maxDelay)
calculateDelay(attempt, config) ==
    LET delay == [n |-> config.baseDelay * config.backoffMultiplier.n ^ (attempt - 1),
                  d |-> config.backoffMultiplier.d ^ (attempt - 1)]
    IN  IF delay.n > config.maxDelay * delay.d
        THEN [n |-> config.maxDelay, d |-> 1]
        ELSE delay

\* An error object: status 0 and the empty name or message stand for a
\* property that is not there.
ErrorObject(name, message, status) ==
    [name |-> name, message |-> message, status |-> status]

\* error.message.includes('fetch'), on the messages of the errors below.
IncludesFetch(message) == message \in {"Failed to fetch"}

isRetryableError(err, config) ==
    \/ err.name = "TypeError" /\ IncludesFetch(err.message)
    \/ err.status # 0 /\ err.status \in config.retryableStatusCodes
    \/ err.name = "AbortError"

\* The errors an operation throws: the two of fetch (network, timeout), an
\* HTTP status that is retryable or not, and a TypeError of the program.
Errors ==
    {ErrorObject("TypeError", "Failed to fetch", 0),
     ErrorObject("AbortError", "The operation was aborted.", 0),
     ErrorObject("TypeError", "data is undefined", 0)}
    \cup {ErrorObject("Error", "HTTP error!", status) : status \in {404, 429, 503}}

\* retryWithBackoff entered: the loop runs if 1 <= maxRetries, else
\* lastError, which is undefined, is thrown.
Entered(retryConfig, operation) ==
    [pc |-> IF 1 <= retryConfig.maxRetries THEN "operation" ELSE "thrown",
     operation |-> operation,
     config |-> retryConfig,
     attempt |-> 1,
     log |-> <<>>,
     waits |-> <<>>,
     settled |-> Undefined]

\* The body of the loop from the end of operation() on: the value is
\* returned, or the error is thrown, or the delay is waited for.
Settle(r, outcome) ==
    LET logged == [r EXCEPT !.log = Append(@, outcome)]
    IN  IF outcome.ok
        THEN [logged EXCEPT !.pc = "returned", !.settled = outcome.value]
        ELSE IF ~isRetryableError(outcome.error, r.config)
             THEN [logged EXCEPT !.pc = "thrown", !.settled = outcome.error]
        ELSE IF r.attempt = r.config.maxRetries
             THEN [logged EXCEPT !.pc = "thrown", !.settled = outcome.error]
        ELSE [logged EXCEPT !.pc = "waiting",
                            !.waits = Append(@, calculateDelay(r.attempt, r.config))]

\* The configurations retryWithBackoff is called with: the strategies, and
\* one of the caller's own whose delay reaches maxDelay.
RetryConfigs ==
    {retryStrategies[strategy] : strategy \in DOMAIN retryStrategies}
    \cup {[maxRetries |-> maxRetries, baseDelay |-> 4000] :
            maxRetries \in 0..MaxCustomRetries}

\* An operation of the caller's: no more is known of it than its outcomes.
AnyOperation == [name |-> "operation", cache |-> Null]

CallRetryWithBackoff ==
    /\ retry.pc = "idle"
    /\ \E config \in RetryConfigs :
            retry' = Entered(RetryConfig(config), AnyOperation)
    /\ UNCHANGED <<num, gameData, candidate, component, nameEntry, op, args, result>>

\* await operation(): it returns a value, here the number of the attempt,
\* or throws.
Operation ==
    /\ retry.pc = "operation"
    /\ retry.operation = AnyOperation
    /\ \E outcome \in {[ok |-> TRUE, value |-> Number(retry.attempt)]}
                        \cup {[ok |-> FALSE, error |-> err] : err \in Errors} :
            retry' = Settle(retry, outcome)
    /\ UNCHANGED <<num, gameData, candidate, component, nameEntry, op, args, result>>

\* The timer of setTimeout(resolve, delay) fires: the next iteration.
Timeout ==
    /\ retry.pc = "waiting"
    /\ retry' = [retry EXCEPT !.attempt = @ + 1,
                              !.pc = IF retry.attempt + 1 <= retry.config.maxRetries
                                     THEN "operation" ELSE "thrown"]
    /\ UNCHANGED <<num, gameData, candidate, component, nameEntry, op, args, result>>

\* The caller has the value or the error; the next call starts afresh.
Settled ==
    /\ retry.pc \in {"returned", "thrown"}
    /\ retry' = NoRetry
    /\ UNCHANGED <<num, gameData, candidate, component, nameEntry, op, args, result>>

(***************************************************************************)
(* contestAPI.getContest (src/src/services/apiService.js): the request in  *)
(* handleAsyncOperation, made retryable with the 'aggressive' strategy.    *)
(***************************************************************************)
\* retryStrategies[strategy] || retryStrategies.standard
StrategyConfig(strategy) ==
    IF strategy \in DOMAIN retryStrategies
    THEN retryStrategies[strategy] ELSE retryStrategies.standard

\* What secureFetch and the check of response.ok end with: the contest, or
\* the error thrown.
Responses ==
    {[ok |-> TRUE, value |-> contest] : contest \in Contests}
    \cup {[ok |-> FALSE, error |-> err] : err \in
            {ErrorObject("TypeError", "Failed to fetch", 0),
             ErrorObject("AbortError", "The operation was aborted.", 0)}
            \cup {ErrorObject("Error", "HTTP error!", status) :
                    status \in {404, 408, 429, 500, 502, 503, 504}}}

\* {...cachedData, _isOffline: true, _cachedAt: Date.now()}, the time left
\* out.
OfflineData(cachedData) ==
    [names |-> cachedData.names, eventId |-> cachedData.eventId,
     status |-> cachedData.status, _isOffline |-> TRUE]

\* The function getContest hands to handleAsyncOperation: a failure is
\* answered from the cache if the contest is there.
Request(response, cache) ==
    IF response.ok THEN response
    ELSE IF cache # Null THEN [ok |-> TRUE, value |-> OfflineData(cache)]
    ELSE response

\* handleAsyncOperation: an error is thrown on as the object
\* {originalError, type, userMessage}, which has no name, message or status.
handleAsyncOperation(outcome) ==
    IF outcome.ok THEN outcome
    ELSE [ok |-> FALSE,
          error |-> [name |-> "", message |-> "", status |-> 0,
                     originalError |-> outcome.error]]

\* contestAPI.getContest(contestId) is called: retryWithBackoff is entered
\* with the 'aggressive' strategy; the contest is in the cache or not.
CallGetContest ==
    /\ retry.pc = "idle"
    /\ \E cache \in {Null} \cup Contests :
            retry' = Entered(RetryConfig(StrategyConfig("aggressive")),
                             [name |-> "getContest", cache |-> cache])
    /\ UNCHANGED <<num, gameData, candidate, component, nameEntry, op, args, result>>

\* await operation() when the operation is that of getContest.
GetContest ==
    /\ retry.pc = "operation"
    /\ retry.operation.name = "getContest"
    /\ \E response \in Responses :
            retry' = Settle(retry,
                            handleAsyncOperation(Request(response, retry.operation.cache)))
    /\ UNCHANGED <<num, gameData, candidate, component, nameEntry, op, args, result>>

NextRetry ==
    \/ CallRetryWithBackoff
    \/ Operation
    \/ CallGetContest
    \/ GetContest
    \/ Timeout
    \/ Settled

SpecRetry == InitServices /\ [][NextRetry]_vars

(***************************************************************************)
(* NameEntry.handleSubmit (src/unnamed/part_007) with validateNames        *)
(* (src/src/utils/validation.js).                                          *)
(***************************************************************************)
\* str.trim(), the blank being the one white-space character of the names.
RECURSIVE trim(_)
trim(str) ==
    IF Len(str) = 0 THEN str
    ELSE IF Head(str) = " " THEN trim(Tail(str))
    ELSE IF str[Len(str)] = " " THEN trim(SubSeq(str, 1, Len(str) - 1))
    ELSE str

\* str.trim().replace(/[<>]/g, '')
sanitizeString(str) == SelectSeq(trim(str), LAMBDA c : c \notin {"<", ">"})

\* arr.map(item => sanitizeString(item)).filter(item => item !== '')
sanitizeArray(arr) ==
    SelectSeq([i \in DOMAIN arr |-> sanitizeString(arr[i])], LAMBDA item : item # <<>>)

validateName(name) ==
    LET sanitizedName == sanitizeString(name)
    IN  IF sanitizedName = <<>> \/ trim(sanitizedName) = <<>>
        THEN [isValid |-> FALSE, message |-> "Name cannot be empty"]
        ELSE IF Len(sanitizedName) > 100
        THEN [isValid |-> FALSE, message |-> "Name cannot exceed 100 characters"]
        ELSE [isValid |-> TRUE, message |-> "", value |-> sanitizedName]

validateNames(nameArray) ==
    LET sanitizedNames == sanitizeArray(nameArray)
        invalidNames == SelectSeq([i \in DOMAIN sanitizedNames |->
                                        validateName(sanitizedNames[i])],
                                  LAMBDA validation : ~validation.isValid)
    IN  IF Len(sanitizedNames) = 0
        THEN [isValid |-> FALSE, message |-> "At least one name is required"]
        ELSE IF Len(sanitizedNames) > 100
        THEN [isValid |-> FALSE, message |-> "Cannot exceed 100 names"]
        ELSE IF Len(invalidNames) > 0
        THEN [isValid |-> FALSE, message |-> invalidNames[1].message]
        ELSE IF Len(sanitizedNames) # TOTAL_SQUARES
        THEN [isValid |-> FALSE, message |-> "Please enter exactly 100 names"]
        ELSE [isValid |-> TRUE, message |-> "", value |-> sanitizedNames]

\* What a field can hold: nothing, blanks, angle brackets, a name with
\* blanks or brackets around it, a name of 101 characters.
FieldValues ==
    {<<>>, <<" ">>, <<"<", ">">>, <<"<", " ", ">">>, <<" ", "a", " ">>,
     <<"<", "a", " ", ">">>, <<"a", " ", "b">>, [i \in 1..101 |-> "a"]}

\* The names state: a hundred names with one field taken from the values
\* above, the empty form, and the lists of 99 and of 101 names.
NameArrays ==
    {[i \in 1..TOTAL_SQUARES |-> IF i = field THEN value ELSE <<"a">>] :
        field \in {1, TOTAL_SQUARES}, value \in FieldValues}
    \cup {[i \in 1..count |-> <<"a">>] :
            count \in {0, TOTAL_SQUARES - 1, TOTAL_SQUARES, TOTAL_SQUARES + 1}}
    \cup {NoSubmit.names}

\* setNames: the fields are filled in while no submit is under way.
SetNames ==
    /\ nameEntry.pc = "idle"
    /\ \E nameArray \in NameArrays : nameEntry' = [nameEntry EXCEPT !.names = nameArray]
    /\ UNCHANGED <<num, gameData, candidate, component, retry, op, args, result>>

\* handleSubmit up to its first await: the names are validated, and
\* updateContest is requested with the sanitized names if they are valid.
HandleSubmit ==
    /\ nameEntry.pc = "idle"
    /\ nameEntry.submits < MaxSubmits
    /\ LET validation == validateNames(nameEntry.names)
           clicked == [nameEntry EXCEPT !.submits = @ + 1]
       IN  nameEntry' =
                IF ~validation.isValid
                THEN [clicked EXCEPT !.error = String(validation.message),
                                     !.isSubmitting = FALSE]
                ELSE [clicked EXCEPT !.isSubmitting = TRUE,
                                     !.pc = "updateContest",
                                     !.log = Append(@, [event |-> "updateContest",
                                                        names |-> validation.value])]
    /\ UNCHANGED <<num, gameData, candidate, component, retry, op, args, result>>

\* The catch and the finally of handleSubmit: the request was rejected.
Failed(entry) ==
    [entry EXCEPT !.error = String("getErrorMessage(error)"),
                  !.isSubmitting = FALSE,
                  !.pc = "idle",
                  !.log = Append(@, [event |-> "rejected"])]

\* A plausible slip: the rejection of updateContest is swallowed and the
\* contest is started all the same.
UpdateContest_startsAnyway ==
    /\ nameEntry.pc = "updateContest"
    /\ \E answer \in {"resolved", "rejected"} :
            nameEntry' = [nameEntry EXCEPT !.pc = "startContest",
                                           !.log = @ \o <<[event |-> answer],
                                                          [event |-> "startContest"]>>]
    /\ UNCHANGED <<num, gameData, candidate, component, retry, op, args, result>>

\* await contestAPI.updateContest(...) ends: startContest is requested, or
\* the error is shown.
UpdateContest ==
    /\ nameEntry.pc = "updateContest"
    /\ \/ nameEntry' = [nameEntry EXCEPT !.pc = "startContest",
                                         !.log = @ \o <<[event |-> "resolved"],
                                                        [event |-> "startContest"]>>]
       \/ nameEntry' = Failed(nameEntry)
    /\ UNCHANGED <<num, gameData, candidate, component, retry, op, args, result>>

\* await contestAPI.startContest(...) ends: onNamesSubmitted is called, or
\* the error is shown.
StartContest ==
    /\ nameEntry.pc = "startContest"
    /\ \/ nameEntry' = [nameEntry EXCEPT !.pc = "idle",
                                         !.isSubmitting = FALSE,
                                         !.log = @ \o <<[event |-> "resolved"],
                                                        [event |-> "onNamesSubmitted"]>>]
       \/ nameEntry' = Failed(nameEntry)
    /\ UNCHANGED <<num, gameData, candidate, component, retry, op, args, result>>

NextNameEntry == SetNames \/ HandleSubmit \/ UpdateContest \/ StartContest

SpecNameEntry == InitServices /\ [][NextNameEntry]_vars

(***************************************************************************)
(* The properties.  They are stated with the arithmetic below, which is    *)
(* independent of the operators above.                                     *)
(***************************************************************************)
\* n divided by m > 0, rounded toward zero, and the remainder that goes
\* with it.
TruncDiv(n, m) == IF n >= 0 THEN n \div m ELSE -((-n) \div m)

TruncRem(n, m) == n - m * TruncDiv(n, m)

\* What a slot adds to a total: its number, and 0 for undefined and null.
SlotPoints(slot) == IF slot.type = "number" THEN JsValue(slot.n) ELSE 0

\* The sum of the first k entries of a line, those past its end adding 0.
RECURSIVE PrefixSum(_, _)
PrefixSum(line, k) ==
    IF k <= 0 THEN 0
    ELSE PrefixSum(line, k - 1) + (IF k <= Len(line) THEN SlotPoints(line[k]) ELSE 0)

Range(seq) == {seq[i] : i \in DOMAIN seq}

Ascending(seq) == \A i \in 1..(Len(seq) - 1) : seq[i] < seq[i + 1]

homeLine == gameData.homeTeam.lineScore

awayLine == gameData.awayTeam.lineScore

\* The periods whose cumulative digit pair is <<homeDigit, awayDigit>>.
MatchedPeriods(homeDigit, awayDigit) ==
    {p \in 1..gameData.currentPeriod :
        /\ TruncRem(PrefixSum(homeLine, p), 10) = homeDigit
        /\ TruncRem(PrefixSum(awayLine, p), 10) = awayDigit}

\* C1: getSquareInfo returns in quarters exactly the periods of
\* 1..currentPeriod whose cumulative last digits are the coordinate's, in
\* strictly ascending order, so without duplicates and with every matching
\* period reported.
C1_QuartersAreTheMatchedPeriods ==
    op = "getSquareInfo" =>
        /\ Ascending(result.quarters)
        /\ Range(result.quarters) = MatchedPeriods(args[1], args[2])

\* A coordinate that matches at several periods, all of them reported.
C1_Witness ==
    /\ op = "getSquareInfo"
    /\ gameData.currentPeriod = 4
    /\ Len(homeLine) = 2
    /\ result.quarters = <<2, 3, 4>>

\* C2: getLastDigit(n) is the remainder of n by 10 truncated toward zero
\* (the sign of n for a negative n), a zero result is 0 and never -0, and
\* for n >= 0 the result is in 0..9.
C2_LastDigitIsTruncatingRemainder ==
    op = "getLastDigit" =>
        LET n == JsValue(args[1])
        IN  /\ JsValue(result) = TruncRem(n, 10)
            /\ result.neg = (JsValue(result) < 0)
            /\ ~IsNegZero(result)
            /\ (n >= 0 => JsValue(result) \in 0..9)
            /\ (n < 0 => JsValue(result) \in (-9)..0)

\* getLastDigit(-10) reported as 0.
C2_Witness ==
    /\ op = "getLastDigit"
    /\ args[1] = JsNumber(-10)
    /\ result = PosZero

\* C3: getCumulativeScores(snapshot, p) is, for each side, the sum of
\* lineScore[0..p-1], an index past the end and an undefined or null slot
\* adding 0; p = 0 gives {home: 0, away: 0}, and a p beyond the length gives
\* the sum of the whole array.
C3_CumulativeIsPrefixSum ==
    op = "getCumulativeScores" =>
        LET p == args[1]
        IN  /\ result.home = JsNumber(PrefixSum(homeLine, p))
            /\ result.away = JsNumber(PrefixSum(awayLine, p))
            /\ (p = 0 => result = [home |-> PosZero, away |-> PosZero])
            /\ (p > Len(homeLine) =>
                    result.home = JsNumber(PrefixSum(homeLine, Len(homeLine))))
            /\ (p > Len(awayLine) =>
                    result.away = JsNumber(PrefixSum(awayLine, Len(awayLine))))

\* A sum past the end of both arrays, over an undefined and a null slot.
C3_Witness ==
    /\ op = "getCumulativeScores"
    /\ homeLine = <<Undefined, Number(7)>>
    /\ awayLine = <<Null>>
    /\ args[1] = 3
    /\ result = [home |-> JsNumber(7), away |-> PosZero]

\* C4: a period is final exactly when currentPeriod is past it (period 4
\* with currentPeriod > 4 and a status that is not final excepted), or the
\* status is final, or the period is 2 and the status is halftime; every
\* other combination is ongoing.
C4_FinalityTable ==
    op = "isQuarterFinal" =>
        LET period == args[1]
            currentPeriod == gameData.currentPeriod
            final == gameData.gameStatus = "STATUS_FINAL"
            halftime == gameData.gameStatus = "STATUS_HALFTIME"
            past == /\ currentPeriod > period
                    /\ ~(period = 4 /\ currentPeriod > 4 /\ ~final)
        IN  result = (past \/ final \/ (period = 2 /\ halftime))

\* Period 2 final at halftime, while it is still the current period.
C4_Witness ==
    /\ op = "isQuarterFinal"
    /\ args[1] = 2
    /\ gameData.currentPeriod = 2
    /\ gameData.gameStatus = "STATUS_HALFTIME"
    /\ result = TRUE

\* C5: in overtime (currentPeriod > 4) with a status that is not final, a
\* coordinate that matches at period 4 has 4 in ongoingQuarters and not in
\* finalQuarters, while its matched periods 1..3 are in finalQuarters; when
\* the status is final, a matched period 4 is in finalQuarters.
C5_OvertimeKeepsPeriodFourOngoing ==
    op = "render" =>
        \A item \in result.items :
            LET info == item.squareInfo
                overtime == /\ gameData.currentPeriod > 4
                            /\ gameData.gameStatus # "STATUS_FINAL"
            IN  \A p \in Range(info.quarters) :
                    /\ (overtime /\ p = 4) =>
                            /\ p \in Range(info.ongoingQuarters)
                            /\ p \notin Range(info.finalQuarters)
                    /\ (overtime /\ p \in 1..3) => p \in Range(info.finalQuarters)
                    /\ (gameData.gameStatus = "STATUS_FINAL" /\ p = 4) =>
                            p \in Range(info.finalQuarters)

\* An overtime render: one square holds periods 3 and 4, 3 final and 4 not.
C5_Witness ==
    /\ op = "render"
    /\ gameData.currentPeriod = 5
    /\ gameData.gameStatus = "STATUS_IN_PROGRESS"
    /\ \E item \in result.items :
            /\ 3 \in Range(item.squareInfo.finalQuarters)
            /\ 4 \in Range(item.squareInfo.ongoingQuarters)
            /\ 4 \notin Range(item.squareInfo.finalQuarters)

\* C6: finalQuarters and ongoingQuarters partition quarters: they are
\* disjoint, their union is quarters, and each is in ascending order.
C6_FinalAndOngoingPartitionQuarters ==
    op = "render" =>
        \A item \in result.items :
            LET info == item.squareInfo
            IN  /\ Range(info.finalQuarters) \cap Range(info.ongoingQuarters) = {}
                /\ Range(info.finalQuarters) \cup Range(info.ongoingQuarters)
                        = Range(info.quarters)
                /\ Ascending(info.finalQuarters)
                /\ Ascending(info.ongoingQuarters)

\* A square with periods on both sides of the split.
C6_Witness ==
    /\ op = "render"
    /\ \E item \in result.items :
            /\ Len(item.squareInfo.finalQuarters) >= 2
            /\ Len(item.squareInfo.ongoingQuarters) >= 1

\* A value lacks a property when it is no object or has no such property.
Lacks(v, name) == ~IsObject(v) \/ ~HasProperty(v, name)

\* The candidates the specification lists as invalid.
ListedInvalid(c) ==
    \/ c.type \in {"null", "undefined"}
    \/ \E name \in Range(requiredFields) : Lacks(c, name)
    \/ \E team \in {"homeTeam", "awayTeam"}, name \in Range(requiredTeamFields) :
            Lacks(GetProperty(c, team), name)
    \/ GetProperty(c, "currentPeriod").type # "number"
    \/ JsValue(GetProperty(c, "currentPeriod").n) < 0
    \/ \E team \in {"homeTeam", "awayTeam"} :
            \/ GetProperty(GetProperty(c, team), "score").type # "number"
            \/ GetProperty(GetProperty(c, team), "lineScore").type # "array"

\* C7: validateGameData returns false for a null or undefined candidate,
\* for one without homeTeam, awayTeam or currentPeriod, with a team that
\* lacks name, score or lineScore, with a currentPeriod that is no number or
\* is negative, with a score that is no number or a lineScore that is no
\* array; it returns true for every other candidate.
C7_ReturnsFalseExactlyForTheListedCandidates ==
    op = "validateGameData" => result = Returned(~ListedInvalid(candidate))

\* What is left of C7 on the calls that return.
C7_HoldsWhereTheCallReturns ==
    (op = "validateGameData" /\ ~result.threw) =>
        result = Returned(~ListedInvalid(candidate))

\* C8: validateGameData never throws: for any input, a non-object
\* candidate or a homeTeam or awayTeam that is null or a primitive
\* included, it returns false.
C8_NeverThrows ==
    op = "validateGameData" => ~result.threw

\* The squares a sweep returned, as coordinates.
SweptCoordinates == {<<result[i].homeDigit, result[i].awayDigit>> : i \in DOMAIN result}

\* C9: getAllWinningSquares returns exactly the coordinates of 0..9 x 0..9
\* for which getSquareInfo reports isColored, each once, each with the
\* quarters and the quarterText getSquareInfo returns for it.
C9_SweepReturnsTheColoredSquares ==
    op = "getAllWinningSquares" =>
        /\ SweptCoordinates =
                {c \in Digits \X Digits : getSquareInfo(gameData, c[1], c[2]).isColored}
        /\ Cardinality(SweptCoordinates) = Len(result)
        /\ \A i \in DOMAIN result :
                LET info == getSquareInfo(gameData, result[i].homeDigit, result[i].awayDigit)
                IN  /\ result[i].quarters = info.quarters
                    /\ result[i].quarterText = info.quarterText

\* A sweep that returned two squares, the second one holding two periods.
C9_Witness ==
    /\ op = "getAllWinningSquares"
    /\ Len(result) = 2
    /\ Len(result[2].quarters) = 2

\* C10: with currentPeriod = 0 no coordinate wins, whatever the line
\* scores: getSquareInfo returns isColored false, quarters [] and
\* quarterText null, and getAllWinningSquares returns the empty list.
C10_NoWinnerBeforeTheFirstPeriod ==
    gameData.currentPeriod = 0 =>
        /\ op = "getSquareInfo" =>
                result = [isColored |-> FALSE, quarters |-> <<>>, quarterText |-> NullText]
        /\ op = "getAllWinningSquares" => result = <<>>

\* Square (0, 0), whose digits are those of the totals before the first
\* period, asked for with line scores present and currentPeriod = 0.
C10_Witness ==
    /\ op = "getSquareInfo"
    /\ args = <<0, 0>>
    /\ gameData.currentPeriod = 0
    /\ Len(homeLine) = 2
    /\ ~result.isColored

\* The tokens Q<p> of a list of periods, and a list of tokens written with
\* commas between them.
QuarterTokens(quarters) == [i \in DOMAIN quarters |-> "Q" \o ToString(quarters[i])]

RECURSIVE CommaSeparated(_)
CommaSeparated(tokens) ==
    IF Len(tokens) = 0 THEN ""
    ELSE IF Len(tokens) = 1 THEN tokens[1]
    ELSE CommaSeparated(SubSeq(tokens, 1, Len(tokens) - 1)) \o "," \o tokens[Len(tokens)]

\* What C11 asks of one result.
ColoredIffMatched(info) ==
    /\ info.isColored = (info.quarters # <<>>)
    /\ (info.quarterText = NullText) = (info.quarters = <<>>)
    /\ info.quarters # <<>> =>
            /\ Ascending(info.quarters)
            /\ info.quarterText = JsString(CommaSeparated(QuarterTokens(info.quarters)))

\* C11: in every result of getSquareInfo, isColored is true exactly when
\* quarters is not empty, quarterText is null exactly when quarters is
\* empty, and otherwise quarterText is the tokens Q<p> of the periods of
\* quarters, in their ascending order, joined by commas.
C11_ColoredAndTextFollowQuarters ==
    /\ op = "getSquareInfo" => ColoredIffMatched(result)
    /\ op = "getAllWinningSquares" =>
            \A i \in DOMAIN result : ColoredIffMatched(result[i])

\* A square with three periods, and its text.
C11_Witness ==
    /\ op = "getSquareInfo"
    /\ result.quarters = <<2, 3, 4>>
    /\ result.quarterText = JsString("Q2,Q3,Q4")

\* C12: in every result of the component's getSquareInfo, hasOngoingQuarter
\* is true exactly when ongoingQuarters is not empty, that is when a matched
\* period is not final, and it is false when isColored is false.
C12_OngoingFlagFollowsOngoingQuarters ==
    op = "render" =>
        \A item \in result.items :
            LET info == item.squareInfo
            IN  /\ info.hasOngoingQuarter = (info.ongoingQuarters # <<>>)
                /\ info.hasOngoingQuarter =
                        (\E p \in Range(info.quarters) : ~isQuarterFinal(gameData, p))
                /\ ~info.isColored => ~info.hasOngoingQuarter

\* A render in the second period: the square of period 1 is settled, the
\* square of period 2 is not.
C12_Witness ==
    /\ op = "render"
    /\ gameData.currentPeriod = 2
    /\ \E item \in result.items :
            item.squareInfo.isColored /\ ~item.squareInfo.hasOngoingQuarter
    /\ \E item \in result.items :
            item.squareInfo.isColored /\ item.squareInfo.hasOngoingQuarter

\* No slot of either line holds a negative number.
NonNegativeLines ==
    \A line \in {homeLine, awayLine} :
        \A i \in DOMAIN line : line[i].type = "number" => JsValue(line[i].n) >= 0

\* C13: on a snapshot whose lineScore entries are all non-negative, the
\* cumulative scores do not decrease with the period: for p1 < p2 the home
\* total at p2 is at least the home total at p1, and likewise for away.
C13_CumulativeIsMonotone ==
    (op = "getCumulativeScores" /\ NonNegativeLines) =>
        \A p1 \in 0..(args[1] - 1) :
            LET earlier == getCumulativeScores(gameData, p1)
            IN  /\ JsValue(result.home) >= JsValue(earlier.home)
                /\ JsValue(result.away) >= JsValue(earlier.away)

\* Two touchdowns at home and one away with an empty slot after it.
C13_Witness ==
    /\ op = "getCumulativeScores"
    /\ homeLine = <<Number(7), Number(7)>>
    /\ awayLine = <<Number(7), Undefined>>
    /\ args[1] = 2
    /\ result = [home |-> JsNumber(14), away |-> JsNumber(7)]


\* Two snapshots agree on the entries of index 0..n-1 of both lines.
LinesAgree(a, b, n) ==
    \A i \in 0..(n - 1) :
        /\ ArrayGet(a.homeTeam.lineScore, i) = ArrayGet(b.homeTeam.lineScore, i)
        /\ ArrayGet(a.awayTeam.lineScore, i) = ArrayGet(b.awayTeam.lineScore, i)

\* The snapshots with the currentPeriod and gameStatus of gameData whose
\* lines agree with it up to currentPeriod.
AgreeingSnapshots ==
    {other \in {GameSnapshot(game, gameData.currentPeriod, gameData.gameStatus) :
                    game \in OvertimeGames} :
        LinesAgree(other, gameData, gameData.currentPeriod)}

\* C14: entries of lineScore beyond currentPeriod are ignored: a snapshot
\* with the same currentPeriod and gameStatus whose lines agree on the
\* indexes 0..currentPeriod-1 gives the same getSquareInfo result for the
\* coordinate and the same getAllWinningSquares list; so the square of
\* period 4 does not depend on an overtime entry.
C14_EntriesBeyondCurrentPeriodAreIgnored ==
    /\ op = "getSquareInfo" =>
            \A other \in AgreeingSnapshots :
                getSquareInfo(other, args[1], args[2]) = result
    /\ op = "getAllWinningSquares" =>
            \A other \in AgreeingSnapshots : getAllWinningSquares(other) = result

\* The square of period 4 resolved at currentPeriod 4 on a line score that
\* already holds an overtime touchdown.
C14_Witness ==
    /\ op = "getSquareInfo"
    /\ gameData.currentPeriod = 4
    /\ Len(homeLine) = 5
    /\ homeLine[5] = Number(7)
    /\ 4 \in Range(result.quarters)
    /\ Cardinality(AgreeingSnapshots) > 1

\* What the call f with the arguments a returns when it runs alone on the
\* inputs as they are before the step.
RunAlone(f, a) ==
    CASE f = "getLastDigit" -> getLastDigit(num)
      [] f = "getCumulativeScores" -> getCumulativeScores(gameData, a[1])
      [] f = "getSquareInfo" -> getSquareInfo(gameData, a[1], a[2])
      [] f = "getAllWinningSquares" -> getAllWinningSquares(gameData)
      [] f = "validateGameData" -> validateGameData(candidate)

RECURSIVE InnerHomeLoop(_, _, _, _)
InnerHomeLoop(gd, awayDigit, homeDigit, pushed) ==
    IF homeDigit < GridSize
    THEN LET squareInfo == getSquareInfo(gd, homeDigit, awayDigit)
         IN  InnerHomeLoop(gd, awayDigit, homeDigit + 1,
                 IF squareInfo.isColored
                 THEN Append(pushed, WinningSquare(homeDigit, awayDigit, squareInfo))
                 ELSE pushed)
    ELSE pushed

RECURSIVE OuterAwayLoop(_, _)
OuterAwayLoop(gd, awayDigit) ==
    IF awayDigit < GridSize
    THEN InnerHomeLoop(gd, awayDigit, 0, <<>>) \o OuterAwayLoop(gd, awayDigit + 1)
    ELSE <<>>

\* C17: the sweep returns the same set of entries whether the home digit is
\* iterated in the outer loop, as the code does, or in the inner loop.
C17_SweepSetIsLoopOrderFree ==
    op = "getAllWinningSquares" => Range(result) = Range(OuterAwayLoop(gameData, 0))

\* A sweep whose list is not the list of the other loop order.
C17_Witness ==
    /\ op = "getAllWinningSquares"
    /\ Len(result) >= 2
    /\ result # OuterAwayLoop(gameData, 0)

\* A total below zero that is no multiple of 10.
NegativeOffTen(total) == total < 0 /\ TruncRem(total, 10) # 0

\* The periods up to currentPeriod at which a side's total is such.
PeriodsWithNoSquare ==
    {p \in 1..gameData.currentPeriod :
        \/ NegativeOffTen(PrefixSum(homeLine, p))
        \/ NegativeOffTen(PrefixSum(awayLine, p))}

\* C18: with negative line scores getSquareInfo returns, and a period
\* matches a coordinate exactly when the coordinate's digits are the signed
\* truncating remainders of the cumulative totals (home [-10], away [-5],
\* currentPeriod 1 matches (0, -5)); so a period with a negative total that
\* is no multiple of 10 is won by no coordinate of 0..9.
C18_NegativeScoresMatchSignedRemainders ==
    /\ op = "getSquareInfo" =>
            /\ Range(result.quarters) = MatchedPeriods(args[1], args[2])
            /\ (args[1] \in Digits /\ args[2] \in Digits) =>
                    Range(result.quarters) \cap PeriodsWithNoSquare = {}
    /\ op = "getAllWinningSquares" =>
            \A i \in DOMAIN result :
                Range(result[i].quarters) \cap PeriodsWithNoSquare = {}

\* The case of App.test.js: home [-10], away [-5], the square (0, -5).
C18_Witness ==
    /\ op = "getSquareInfo"
    /\ homeLine = <<Number(-10)>>
    /\ awayLine = <<Number(-5)>>
    /\ gameData.currentPeriod = 1
    /\ args = <<0, -5>>
    /\ result.isColored
    /\ result.quarters = <<1>>
    /\ PeriodsWithNoSquare = {1}

\* The validation predicate on the component's snapshot: false for no
\* snapshot at all.
IsValidSnapshot ==
    /\ gameData # Null
    /\ validateGameData(SnapshotValue(gameData)) = Returned(TRUE)

\* The component came to the point where it shows the grid or its absence.
ShowsGridOrNoData == op = "render" /\ result.view \in {"grid", "noData"}

\* C19: the component resolves squares only on a snapshot for which the
\* validation predicate holds: the grid is rendered for a valid snapshot
\* only, and for an absent or invalid snapshot the "no data" message is
\* shown in its place.
C19_GridOnlyForValidSnapshots ==
    ShowsGridOrNoData => (result.view = "grid") = IsValidSnapshot

\* What the guard of the component does ensure: the grid is rendered for a
\* snapshot that is there, whatever it holds.
C19_GridOnlyForPresentSnapshots ==
    ShowsGridOrNoData => (result.view = "grid") = (gameData # Null)

\* The name Squares shows for a grid index.
DisplayName(gridIndex) ==
    IF gridIndex \in DOMAIN names
    THEN names[gridIndex]
    ELSE String("Name " \o ToString(gridIndex))

\* C20: the quarter-winner lookup and the grid use the same axes: for every
\* period q <= currentPeriod of the quarter scores line whose cumulative
\* totals are not negative, getQuarterWinnerName(q) is the name at index
\* awayDigit * 10 + homeDigit + 1, which is in 1..100, and that index is the
\* gridIndex of the one rendered item whose quarters hold q.
C20_WinnerNameIsTheNameOfTheColoredSquare ==
    (op = "render" /\ result.view = "grid") =>
        \A q \in DOMAIN result.winnerNames :
            LET home == PrefixSum(homeLine, q)
                away == PrefixSum(awayLine, q)
                index == TruncRem(away, 10) * 10 + TruncRem(home, 10) + 1
            IN  (q <= gameData.currentPeriod /\ home >= 0 /\ away >= 0) =>
                    /\ index \in 1..(GridSize * GridSize)
                    /\ result.winnerNames[q] = DisplayName(index)
                    /\ {item.gridIndex : item \in
                            {i \in result.items : q \in Range(i.squareInfo.quarters)}}
                        = {index}
                    /\ Cardinality({i \in result.items :
                                        q \in Range(i.squareInfo.quarters)}) = 1

\* Period 1 won by a named square (home 7, away 0: index 8) and period 2 by
\* a square without a name (home 7, away 7: index 78).
C20_Witness ==
    /\ op = "render"
    /\ result.view = "grid"
    /\ gameData.currentPeriod = 2
    /\ result.winnerNames[1] = String("Player 8")
    /\ result.winnerNames[2] = String("Name 78")
    /\ \E item \in result.items :
            item.gridIndex = 78 /\ item.squareInfo.quarters = <<2>>

(***************************************************************************)
(* The poll loop of the Squares component.                                 *)
(***************************************************************************)
\* A call of fetchGameData ends in this step with a snapshot of a final game.
FinalDelivered ==
    /\ op' = "fetchGameData"
    /\ result' = "data"
    /\ gameData'.gameStatus = "STATUS_FINAL"

\* A poll fetch is started in this step.
PollStarted == inFlight'.polls > inFlight.polls

\* C21: once a fetch, the initial one or a tick's, delivers a snapshot with
\* STATUS_FINAL the interval is cleared and from then on stays cleared; a
\* poll fetch is started only while the interval is set, so none is started
\* after the final snapshot; and a set interval is cleared by nothing but a
\* final snapshot or the unmount.
C21_PollingStopsOnceTheGameIsFinal ==
    /\ [][/\ FinalDelivered => intervalRef' = Null
          /\ PollStarted => (intervalRef # Null /\ isMounted)
          /\ (intervalRef # Null /\ intervalRef' = Null) =>
                (FinalDelivered \/ (isMounted /\ ~isMounted'))]_vars
    /\ []((op = "fetchGameData" /\ result = "data"
                /\ gameData.gameStatus = "STATUS_FINAL")
            => [](intervalRef = Null))

\* A tick delivered the final snapshot while the interval was running: the
\* interval is cleared and the component is still mounted.
C21_Witness ==
    /\ op = "fetchGameData"
    /\ args = <<FALSE>>
    /\ result = "data"
    /\ gameData.gameStatus = "STATUS_FINAL"
    /\ intervalRef = Null
    /\ isMounted

\* A call of fetchGameData(false) ends in this step without a snapshot:
\* getNFLGameData answered null, or threw.
TickFailed ==
    /\ op' = "fetchGameData"
    /\ args' = <<FALSE>>
    /\ result' \in {"null", "throw"}

\* C27: a poll tick that fails leaves gameData, error and loading as they
\* were, and with them all the state the render reads (names, eventId and
\* contestStatus besides), so the grid keeps showing the last snapshot; and
\* a call of fetchGameData that changes error is the initial one.
C27_FailedTickLeavesTheGridAlone ==
    [][/\ TickFailed =>
            /\ UNCHANGED <<gameData, error, loading>>
            /\ UNCHANGED <<names, eventId, contestStatus>>
       /\ (op' = "fetchGameData" /\ error' # error) => args' = <<TRUE>>]_vars

\* A tick failed while the grid showed a snapshot: no error, not loading.
C27_Witness ==
    /\ op = "fetchGameData"
    /\ args = <<FALSE>>
    /\ result = "throw"
    /\ gameData # Null
    /\ error = Null
    /\ ~loading
    /\ isMounted
    /\ contestStatus = String("active")
    /\ names # <<>>

\* The polled snapshot is replaced in this step by one whose currentPeriod
\* is not smaller and whose status is final if the replaced one's was.
MonotoneSnapshots ==
    /\ gameData # Null
    /\ gameData' # Null
    /\ gameData'.currentPeriod >= gameData.currentPeriod
    /\ gameData.gameStatus = "STATUS_FINAL" => gameData'.gameStatus = "STATUS_FINAL"

\* C23, as stated: over polled snapshots whose currentPeriod never decreases
\* and whose status never leaves final, a period that is final stays final.
C23_FinalPeriodsStayFinal ==
    [][MonotoneSnapshots =>
            \A quarter \in 1..MaxPeriod :
                isQuarterFinal(gameData, quarter) => isQuarterFinal(gameData', quarter)]_vars

\* A halftime status is followed, while currentPeriod is at most 2, by a
\* halftime or a final status only.
HalftimeKept ==
    (gameData.gameStatus = "STATUS_HALFTIME" /\ gameData'.currentPeriod <= 2) =>
        gameData'.gameStatus \in {"STATUS_HALFTIME", "STATUS_FINAL"}

\* C23, amended: over polled snapshots whose currentPeriod never decreases,
\* whose status never leaves final and whose halftime status is not taken
\* back while currentPeriod is at most 2, a period that is final stays final.
C23_FinalPeriodsStayFinalPastHalftime ==
    [][(MonotoneSnapshots /\ HalftimeKept) =>
            \A quarter \in 1..MaxPeriod :
                isQuarterFinal(gameData, quarter) => isQuarterFinal(gameData', quarter)]_vars

\* A tick replaced the snapshot the initial fetch had set by one of an
\* overtime in progress: periods 1 to 3 are final, period 4 is not.
C23_Witness ==
    /\ op = "fetchGameData"
    /\ args = <<FALSE>>
    /\ result = "data"
    /\ ~loading
    /\ error = Null
    /\ gameData.currentPeriod = 5
    /\ gameData.gameStatus = "STATUS_IN_PROGRESS"
    /\ isQuarterFinal(gameData, 3)
    /\ ~isQuarterFinal(gameData, 4)

(***************************************************************************)
(* The ongoing periods of a rendered square.                               *)
(***************************************************************************)
\* The periods that can be live in a snapshot: the current one, and period 4
\* during overtime.
LivePeriods ==
    {gameData.currentPeriod} \cup (IF gameData.currentPeriod > 4 THEN {4} ELSE {})

\* C24: in a rendered grid the ongoingQuarters of every square hold only the
\* current period and, during overtime, period 4; under STATUS_FINAL every
\* square has ongoingQuarters empty and hasOngoingQuarter false.
C24_OnlyTheLivePeriodsAreOngoing ==
    (op = "render" /\ result.view = "grid") =>
        \A item \in result.items :
            /\ Range(item.squareInfo.ongoingQuarters) \subseteq LivePeriods
            /\ gameData.gameStatus = "STATUS_FINAL" =>
                    /\ item.squareInfo.ongoingQuarters = <<>>
                    /\ ~item.squareInfo.hasOngoingQuarter

\* An overtime in progress rendered with a square whose ongoing periods are
\* 4 and 5.
C24_Witness ==
    /\ op = "render"
    /\ result.view = "grid"
    /\ gameData.currentPeriod = 5
    /\ gameData.gameStatus = "STATUS_IN_PROGRESS"
    /\ \E item \in result.items : item.squareInfo.ongoingQuarters = <<4, 5>>

\* A final game rendered with a colored square.
C24_WitnessFinal ==
    /\ op = "render"
    /\ result.view = "grid"
    /\ gameData.gameStatus = "STATUS_FINAL"
    /\ gameData.currentPeriod = 4
    /\ \E item \in result.items :
            item.squareInfo.isColored /\ item.squareInfo.finalQuarters = <<1, 2, 3, 4>>

(***************************************************************************)
(* The resolver of the component against the resolver of coloringLogic.js. *)
(***************************************************************************)
\* C25: on every snapshot and every coordinate of the grid the getSquareInfo
\* of the component returns the isColored, quarters and quarterText that
\* getSquareInfo of coloringLogic.js returns, totals that are negative
\* multiples of 10 (whose digit the component leaves as -0) included.
C25_ComponentAgreesWithColoringLogic ==
    (op = "render" /\ result.view = "grid") =>
        \A item \in result.items :
            LET reference == getSquareInfo(gameData, item.homeDigit, item.awayDigit)
            IN  /\ item.squareInfo.isColored = reference.isColored
                /\ item.squareInfo.quarters = reference.quarters
                /\ item.squareInfo.quarterText = reference.quarterText

\* The home line starts with -10: the home total of period 1 is -10, its
\* digit in the component is -0, and the square of home digit 0 is colored
\* for period 1.
C25_Witness ==
    /\ op = "render"
    /\ result.view = "grid"
    /\ gameData.currentPeriod >= 1
    /\ Len(homeLine) >= 1
    /\ JsValue(homeLine[1].n) = -10
    /\ IsNegZero(Squares_getLastDigit(Squares_getCumulativeScores(gameData, 1).home))
    /\ \E item \in result.items :
            /\ item.homeDigit = 0
            /\ item.squareInfo.isColored
            /\ item.squareInfo.quarters[1] = 1

(***************************************************************************)
(* The sweep partitions the periods played.                                *)
(***************************************************************************)
\* The line-score entries the resolver reads, those of periods
\* 1..currentPeriod, are non-negative integers.
ConsultedNonNegative ==
    \A line \in {homeLine, awayLine} :
        \A i \in DOMAIN line :
            i <= gameData.currentPeriod =>
                (line[i].type = "number" /\ ~line[i].n.neg)

\* C22: on a snapshot whose consulted line scores are non-negative integers
\* every period of 1..currentPeriod is won by exactly one coordinate: the
\* quarters lists of the entries getAllWinningSquares returns are pairwise
\* disjoint and without repetition, their union is 1..currentPeriod, and
\* the entries are at least 1 (when currentPeriod >= 1) and at most
\* currentPeriod.
C22_SweepPartitionsThePeriods ==
    (op = "getAllWinningSquares" /\ ConsultedNonNegative) =>
        /\ \A i, j \in DOMAIN result :
                i # j => Range(result[i].quarters) \cap Range(result[j].quarters) = {}
        /\ \A i \in DOMAIN result :
                Cardinality(Range(result[i].quarters)) = Len(result[i].quarters)
        /\ UNION {Range(result[i].quarters) : i \in DOMAIN result}
                = 1..gameData.currentPeriod
        /\ gameData.currentPeriod >= 1 => Len(result) >= 1
        /\ Len(result) <= gameData.currentPeriod

\* A sweep in the fifth period of a game that scored in two: two entries,
\* one with period 1 and one with the periods 2 to 5.
C22_Witness ==
    /\ op = "getAllWinningSquares"
    /\ ConsultedNonNegative
    /\ gameData.currentPeriod = 5
    /\ Len(result) = 2
    /\ \E i \in DOMAIN result : result[i].quarters = <<2, 3, 4, 5>>

(***************************************************************************)
(* A completed game is resolved on its four periods of regulation.         *)
(***************************************************************************)
\* The first k entries of a line.
FirstEntries(line, k) == [i \in 1..(IF Len(line) < k THEN Len(line) ELSE k) |-> line[i]]

\* A snapshot with its lines cut after the fourth entry.
CutAfterRegulation(gd) ==
    [gd EXCEPT !.homeTeam.lineScore = FirstEntries(@, 4),
               !.awayTeam.lineScore = FirstEntries(@, 4)]

\* C26: an object getNFLGameData returns with STATUS_FINAL has period 4
\* whatever period the source reports, so the snapshot made of it has
\* currentPeriod 4; both resolvers return for every coordinate what they
\* return on the snapshot cut after its fourth line-score entry, so overtime
\* points change no winning square; and periods 1 to 4 are all final.
C26_FinalGamesAreResolvedOnRegulation ==
    (op = "getNFLGameData" /\ result.gameStatus = "STATUS_FINAL") =>
        LET snapshot == transformedData(result)
            regulation == CutAfterRegulation(snapshot)
        IN  /\ result.period = 4
            /\ snapshot.currentPeriod <= 4
            /\ \A homeDigit \in Digits, awayDigit \in Digits :
                    /\ getSquareInfo(snapshot, homeDigit, awayDigit)
                        = getSquareInfo(regulation, homeDigit, awayDigit)
                    /\ Squares_getSquareInfo(snapshot, homeDigit, awayDigit)
                        = Squares_getSquareInfo(regulation, homeDigit, awayDigit)
            /\ \A quarter \in 1..4 : isQuarterFinal(snapshot, quarter)

\* A final game whose source reports period 5 and whose line scores have an
\* overtime entry with points: the returned period is 4.
C26_Witness ==
    /\ op = "getNFLGameData"
    /\ result.gameStatus = "STATUS_FINAL"
    /\ args[1].header # Undefined
    /\ args[1].header.status # Undefined
    /\ args[1].header.status.period = Number(5)
    /\ Len(result.homeTeam.lineScore) = 5
    /\ result.awayTeam.lineScore[5].value = "7"
    /\ result.period = 4

(***************************************************************************)
(* retryWithBackoff: attempts, outcome and delays.                         *)
(***************************************************************************)
RECURSIVE Power(_, _)
Power(base, exponent) ==
    IF exponent = 0 THEN 1 ELSE base * Power(base, exponent - 1)

\* The errors worth another attempt: a network error of fetch, a timeout,
\* and the HTTP statuses 408, 429, 500, 502, 503 and 504.
WorthRetrying(err) ==
    \/ err.name = "AbortError"
    \/ err.name = "TypeError" /\ err.message = "Failed to fetch"
    \/ err.status \in {408, 429, 500, 502, 503, 504}

\* wait is min(baseDelay * backoffMultiplier^(attempt - 1), maxDelay).
IsBackoffDelay(wait, attempt, config) ==
    LET n == config.baseDelay * Power(config.backoffMultiplier.n, attempt - 1)
        d == Power(config.backoffMultiplier.d, attempt - 1)
    IN  IF n > config.maxDelay * d
        THEN wait.n = config.maxDelay * wait.d
        ELSE wait.n * d = n * wait.d

\* C28: retryWithBackoff invokes the operation at most maxRetries times and
\* goes on only after a retryable failure; it returns the value of the
\* first success; it rethrows an error that is not retryable at once, and
\* the last error after maxRetries retryable failures; and the wait after
\* attempt k is min(baseDelay * backoffMultiplier^(k-1), maxDelay).
C28_RetryWithBackoff ==
    (retry.pc # "idle" /\ retry.operation.name = "operation") =>
        LET log == retry.log
            calls == Len(retry.log)
            maxRetries == retry.config.maxRetries
        IN  /\ calls <= maxRetries
            /\ \A i \in 1..(calls - 1) : ~log[i].ok /\ WorthRetrying(log[i].error)
            /\ retry.pc = "returned" <=> (calls >= 1 /\ log[calls].ok)
            /\ retry.pc = "returned" => retry.settled = log[calls].value
            /\ retry.pc = "thrown" =>
                    IF calls = 0
                    THEN maxRetries < 1 /\ retry.settled = Undefined
                    ELSE /\ ~log[calls].ok
                         /\ retry.settled = log[calls].error
                         /\ ~WorthRetrying(log[calls].error) \/ calls = maxRetries
            /\ (calls >= 1 /\ ~log[calls].ok /\ ~WorthRetrying(log[calls].error)) =>
                    retry.pc = "thrown"
            /\ (calls = maxRetries /\ calls >= 1 /\ ~log[calls].ok) => retry.pc = "thrown"
            /\ Len(retry.waits) =
                    IF retry.pc \in {"returned", "thrown"} /\ calls >= 1
                    THEN calls - 1 ELSE calls
            /\ \A k \in DOMAIN retry.waits :
                    IsBackoffDelay(retry.waits[k], k, retry.config)

\* Four retryable failures under a configuration of 4 attempts whose third
\* delay is capped: 4000, 8000, 10000, and the last error is thrown.
C28_Witness ==
    /\ retry.pc = "thrown"
    /\ retry.operation.name = "operation"
    /\ retry.config.maxRetries = 4
    /\ Len(retry.log) = 4
    /\ retry.waits = <<[n |-> 4000, d |-> 1], [n |-> 8000, d |-> 1], [n |-> 10000, d |-> 1]>>
    /\ retry.settled = retry.log[4].error

\* The aggressive strategy returning the value of its fifth attempt after
\* waits of 500, 750, 1125 and 1687.5.
C28_WitnessAggressive ==
    /\ retry.pc = "returned"
    /\ retry.operation.name = "operation"
    /\ retry.config.maxRetries = 5
    /\ retry.settled = Number(5)
    /\ retry.waits[4] = [n |-> 13500, d |-> 8]

(***************************************************************************)
(* getContest and its retries.                                             *)
(***************************************************************************)
\* The failure of the request behind the error getContest threw.
Underlying(err) == err.originalError

\* C29, as stated: getContest with no cached copy gives up on a retryable
\* failure (network error, timeout, HTTP 408/429/500/502/503/504) only
\* after 5 attempts; with a cached copy the first failure returns the
\* cached contest flagged _isOffline and nothing is retried.
C29_GetContestRetriesFiveTimes ==
    (retry.pc \in {"returned", "thrown"} /\ retry.operation.name = "getContest") =>
        LET calls == Len(retry.log)
        IN  /\ (retry.pc = "thrown" /\ WorthRetrying(Underlying(retry.settled))) =>
                    calls = 5
            /\ retry.operation.cache # Null =>
                    /\ calls = 1
                    /\ retry.pc = "returned"

\* What the code does: getContest settles after one attempt whatever the
\* failure, because the error retryWithBackoff sees is never retryable; and
\* the answer from the cache is flagged _isOffline.
C29_GetContestNeverRetries ==
    (retry.pc # "idle" /\ retry.operation.name = "getContest") =>
        /\ Len(retry.log) <= 1
        /\ retry.waits = <<>>
        /\ retry.pc # "waiting"
        /\ \A i \in DOMAIN retry.log :
                ~retry.log[i].ok => ~isRetryableError(retry.log[i].error, retry.config)
        /\ (retry.pc = "returned" /\ retry.operation.cache # Null) =>
                \/ retry.settled \in Contests
                \/ retry.settled = OfflineData(retry.operation.cache)

\* A 503 with nothing cached: thrown after the first attempt.
C29_Witness ==
    /\ retry.pc = "thrown"
    /\ retry.operation.name = "getContest"
    /\ retry.operation.cache = Null
    /\ Underlying(retry.settled).status = 503
    /\ Len(retry.log) = 1

(***************************************************************************)
(* handleSubmit: the order of the requests.                                *)
(***************************************************************************)
\* The positions of a field from its first to its last character that is
\* no blank.
Inside(name) ==
    {i \in DOMAIN name :
        /\ \E j \in 1..i : name[j] # " "
        /\ \E k \in i..Len(name) : name[k] # " "}

\* The field counts as left empty: nothing but angle brackets inside.
LeftEmpty(name) == \A i \in Inside(name) : name[i] \in {"<", ">"}

\* The field holds a name: a character that is neither blank nor bracket,
\* and at most 100 characters from the first such to the last, brackets
\* not counted.
HoldsName(name) ==
    LET letters == {i \in DOMAIN name : name[i] \notin {" ", "<", ">"}}
    IN  /\ letters # {}
        /\ Cardinality({i \in DOMAIN name :
                            /\ name[i] \notin {"<", ">"}
                            /\ \E j \in letters : j <= i
                            /\ \E k \in letters : i <= k}) <= 100

\* Exactly 100 fields are not left empty, and each holds a name.
HundredNames(nameArray) ==
    LET entered == {i \in DOMAIN nameArray : ~LeftEmpty(nameArray[i])}
    IN  /\ Cardinality(entered) = 100
        /\ \A i \in entered : HoldsName(nameArray[i])

C30_WitnessInvalid ==
    /\ nameEntry.pc = "idle"
    /\ nameEntry.submits = 1
    /\ Len(nameEntry.names) = 99
    /\ nameEntry.error = String("Please enter exactly 100 names")
    /\ nameEntry.log = <<>>
    /\ ~nameEntry.isSubmitting

\* A submit whose startContest was rejected after updateContest resolved.
C30_WitnessRejected ==
    /\ nameEntry.pc = "idle"
    /\ ~nameEntry.isSubmitting
    /\ Len(nameEntry.log) = 4
    /\ nameEntry.log[3].event = "startContest"
    /\ nameEntry.log[4].event = "rejected"
    /\ nameEntry.error # Null

=============================================================================


